---- MODULE Spec2Model ----
(***************************************************************************)
(* Token engine (HMAC JWT sign / verify / decode), refresh-token service,  *)
(* revocation store, password hashing, signup endpoint and dashboard page  *)
(* of jcoder, as a state machine.                                          *)
(*                                                                         *)
(* Representation.  A JavaScript string is a sequence of byte codes.  A    *)
(* token is a sequence of character codes (Chr).  A JavaScript object is   *)
(* an insertion-ordered sequence of <<key, lexeme>> pairs, the lexeme      *)
(* being the JSON text of the member's value (decimal digits for a number, *)
(* the quoted bytes for a string).  JSON member names are abbreviated to   *)
(* one byte (Key), and the literals "JWT", "refresh", "jcoder-refresh" to  *)
(* one byte each (Lit); algorithm names are spelled out.                   *)
(***************************************************************************)
EXTENDS Integers, Sequences, FiniteSets, TLC

\* ------------------------------------------------------------------ bytes

\* ASCII codes of the structural bytes of JSON text and of timespan strings.
ASCII ==
  [ lbrace |-> 123, rbrace |-> 125, quote |-> 34, colon |-> 58, comma |-> 44,
    backslash |-> 92, space |-> 32, zero |-> 48, nine |-> 57,
    a |-> 97, z |-> 122, s |-> 115, m |-> 109, h |-> 104, d |-> 100 ]

\* One-byte abbreviations of the member names the program reads or writes.
Key ==
  [ alg |-> 97, typ |-> 116, kid |-> 107, userId |-> 117, username |-> 110,
    type |-> 121, iss |-> 105, sub |-> 115, aud |-> 100, jti |-> 106,
    iat |-> 99, exp |-> 101, nbf |-> 98 ]

\* String literals of the program.
Lit ==
  [ HS256 |-> <<72, 83, 50, 53, 54>>, HS384 |-> <<72, 83, 51, 56, 52>>,
    HS512 |-> <<72, 83, 53, 49, 50>>, JWT |-> <<74>>, refresh |-> <<114>>,
    jcoderRefresh |-> <<102>> ]

IsDigit(b) == b >= ASCII.zero /\ b <= ASCII.nine

RECURSIVE Decimal(_)
\* Number -> decimal digits (template literal / JSON.stringify of a
\* non-negative integer).
Decimal(n) ==
  IF n < 10 THEN <<ASCII.zero + n>>
  ELSE Append(Decimal(n \div 10), ASCII.zero + (n % 10))

RECURSIVE ParseInt(_)
\* parseInt(digits, 10) on a non-empty all-digit string.
ParseInt(ds) ==
  IF Len(ds) = 0 THEN 0
  ELSE 10 * ParseInt(SubSeq(ds, 1, Len(ds) - 1)) + (ds[Len(ds)] - ASCII.zero)

AllDigits(str) == Len(str) > 0 /\ \A i \in 1..Len(str) : IsDigit(str[i])

\* ------------------------------------------------------------- base64url

\* Character codes: 0..61 alphanumerics, then the rest of the two alphabets,
\* the token separator and a character outside both alphabets.
Chr ==
  [ plus |-> 62, slash |-> 63, pad |-> 64, minus |-> 65, underscore |-> 66,
    dot |-> 67, bang |-> 68 ]

\* Buffer.toString("base64"): 3 bytes -> 4 characters, '=' padded.
ToBase64(bs) ==
  LET n == Len(bs)
      At(i) == IF i <= n THEN bs[i] ELSE 0
  IN [ k \in 1..(4 * ((n + 2) \div 3)) |->
         LET g == 3 * ((k - 1) \div 4)
             j == (k - 1) % 4
         IN IF j = 0 THEN At(g + 1) \div 4
            ELSE IF j = 1 THEN (At(g + 1) % 4) * 16 + At(g + 2) \div 16
            ELSE IF j = 2 THEN
              IF g + 2 > n THEN Chr.pad ELSE (At(g + 2) % 16) * 4 + At(g + 3) \div 64
            ELSE IF g + 3 > n THEN Chr.pad ELSE At(g + 3) % 64 ]

\* String.replace(/c/g, by) for one character by another.
ReplaceAll(str, c, by) == [i \in 1..Len(str) |-> IF str[i] = c THEN by ELSE str[i]]

\* String.replace(/c/g, "")
RemoveAll(str, c) == SelectSeq(str, LAMBDA x : x # c)

base64urlEncode(buffer) ==
  ReplaceAll(ReplaceAll(RemoveAll(ToBase64(buffer), Chr.pad), Chr.plus, Chr.minus),
             Chr.slash, Chr.underscore)

\* The 6-bit values Node's decoder reads: it stops at '=', takes both
\* alphabets and skips any other character.
Sextets(str) ==
  LET pads == {i \in 1..Len(str) : str[i] = Chr.pad}
      stop == IF pads = {} THEN Len(str) + 1
              ELSE CHOOSE i \in pads : \A j \in pads : i <= j
      read == SelectSeq(SubSeq(str, 1, stop - 1),
                        LAMBDA c : c <= 63 \/ c = Chr.minus \/ c = Chr.underscore)
  IN [ i \in 1..Len(read) |->
         IF read[i] = Chr.minus THEN 62
         ELSE IF read[i] = Chr.underscore THEN 63 ELSE read[i] ]

\* 4 sextets -> 3 bytes; a last group of 2 or 3 gives 1 or 2 bytes.
FromSextets(q) ==
  LET n == Len(q)
      At(i) == IF i <= n THEN q[i] ELSE 0
      r == n % 4
  IN [ k \in 1..(3 * (n \div 4) + (IF r >= 2 THEN r - 1 ELSE 0)) |->
         LET g == 4 * ((k - 1) \div 3)
             j == (k - 1) % 3
         IN IF j = 0 THEN At(g + 1) * 4 + At(g + 2) \div 16
            ELSE IF j = 1 THEN (At(g + 2) % 16) * 16 + At(g + 3) \div 4
            ELSE (At(g + 3) % 4) * 64 + At(g + 4) ]

\* Buffer.from(str, "base64")
FromBase64(str) == FromSextets(Sextets(str))

Repeat(c, n) == [i \in 1..n |-> c]

base64urlDecode(str) ==
  LET base64 == ReplaceAll(ReplaceAll(str, Chr.minus, Chr.plus),
                           Chr.underscore, Chr.slash)
      pad == 4 - (Len(base64) % 4)
  IN FromBase64(IF pad # 4 THEN base64 \o Repeat(Chr.pad, pad) ELSE base64)

\* ------------------------------------------------------------------- JSON

\* undefined, and the empty string: both falsy.
Undefined == <<>>

\* JSON text of a string value and of a non-negative integer value.
JStr(str) == <<ASCII.quote>> \o str \o <<ASCII.quote>>
JNum(n) == Decimal(n)

\* typeof v === "number" / "undefined", and the value of a lexeme.
IsNumber(lex) == AllDigits(lex)
IsUndefined(lex) == lex = Undefined
NumOf(lex) == ParseInt(lex)

RECURSIVE Get(_, _)
\* obj[k]: Undefined when absent (a repeated name reads as its last member).
Get(obj, k) ==
  IF Len(obj) = 0 THEN Undefined
  ELSE IF obj[Len(obj)][1] = k THEN obj[Len(obj)][2]
  ELSE Get(SubSeq(obj, 1, Len(obj) - 1), k)

Has(obj, k) == \E i \in 1..Len(obj) : obj[i][1] = k

\* obj[k] = lex: an existing member keeps its place, a new one is appended.
Put(obj, k, lex) ==
  IF Has(obj, k)
  THEN [i \in 1..Len(obj) |-> IF obj[i][1] = k THEN <<k, lex>> ELSE obj[i]]
  ELSE Append(obj, <<k, lex>>)

RECURSIVE ObjectAssign(_, _)
\* Object.assign(target, source)
ObjectAssign(target, source) ==
  IF Len(source) = 0 THEN target
  ELSE ObjectAssign(Put(target, source[1][1], source[1][2]), Tail(source))

RECURSIVE Members(_)
Members(obj) ==
  IF Len(obj) = 0 THEN <<>>
  ELSE <<obj[1][1], ASCII.colon>> \o obj[1][2]
       \o (IF Len(obj) = 1 THEN <<>> ELSE <<ASCII.comma>> \o Members(Tail(obj)))

\* JSON.stringify(obj), as bytes.
JsonStringify(obj) == <<ASCII.lbrace>> \o Members(obj) \o <<ASCII.rbrace>>

IsStrChar(b) == b >= ASCII.space /\ b # ASCII.quote /\ b # ASCII.backslash
IsKeyByte(b) == b >= ASCII.a /\ b <= ASCII.z

RECURSIVE LexEnd(_, _, _)
\* Index of the last byte of the value lexeme that starts at text[i]
\* (0: no value there).  inStr: i is inside a string literal.
LexEnd(text, i, inStr) ==
  IF i > Len(text) THEN 0
  ELSE IF inStr THEN
    IF text[i] = ASCII.quote THEN i
    ELSE IF IsStrChar(text[i]) THEN LexEnd(text, i + 1, TRUE)
    ELSE 0
  ELSE IF i < Len(text) /\ IsDigit(text[i + 1]) THEN LexEnd(text, i + 1, FALSE)
  ELSE i

ParseFail == [ok |-> FALSE, obj |-> <<>>]

RECURSIVE ParseMembers(_, _, _)
\* The members from text[i] on, up to the closing brace at Len(text).
ParseMembers(text, i, acc) ==
  IF i + 2 > Len(text) - 1 \/ ~IsKeyByte(text[i]) \/ text[i + 1] # ASCII.colon
  THEN ParseFail
  ELSE
    LET j == IF text[i + 2] = ASCII.quote THEN LexEnd(text, i + 3, TRUE)
             ELSE IF text[i + 2] = ASCII.zero /\ IsDigit(text[i + 3]) THEN 0
             ELSE IF IsDigit(text[i + 2]) THEN LexEnd(text, i + 2, FALSE)
             ELSE 0
    IN IF j = 0 \/ j >= Len(text) THEN ParseFail
       ELSE LET acc2 == Put(acc, text[i], SubSeq(text, i + 2, j))
            IN IF j + 1 = Len(text) THEN [ok |-> TRUE, obj |-> acc2]
               ELSE IF text[j + 1] = ASCII.comma
               THEN ParseMembers(text, j + 2, acc2)
               ELSE ParseFail

\* JSON.parse(text) for object texts; ok = FALSE is a SyntaxError.
JsonParse(text) ==
  IF Len(text) < 2 \/ text[1] # ASCII.lbrace \/ text[Len(text)] # ASCII.rbrace
  THEN ParseFail
  ELSE IF Len(text) = 2 THEN [ok |-> TRUE, obj |-> <<>>]
  ELSE ParseMembers(text, 2, <<>>)

\* ----------------------------------------------------------------- errors

\* An error object: its class name, its message and, for the two dated
\* classes, the date it carries (expiredAt / date), in seconds.
NoError == [name |-> "", message |-> "", at |-> 0]
JsonWebTokenError(msg) == [name |-> "JsonWebTokenError", message |-> msg, at |-> 0]
TokenExpiredError(msg, expiredAt) ==
  [name |-> "TokenExpiredError", message |-> msg, at |-> expiredAt]
NotBeforeError(msg, date) == [name |-> "NotBeforeError", message |-> msg, at |-> date]
TypeError(msg) == [name |-> "TypeError", message |-> msg, at |-> 0]

\* --------------------------------------------------------------- timespan

\* A `number | string` argument: a number n, or a string s; the absent
\* argument is NoSpan.
NumSpan(n) == [isNum |-> TRUE, n |-> n, s |-> <<>>]
StrSpan(str) == [isNum |-> FALSE, n |-> 0, s |-> str]
NoSpan == StrSpan(Undefined)
Truthy(value) == IF value.isNum THEN value.n # 0 ELSE value.s # <<>>

UnitSeconds(u) ==
  CASE u = ASCII.s -> 1
    [] u = ASCII.m -> 60
    [] u = ASCII.h -> 60 * 60
    [] u = ASCII.d -> 60 * 60 * 24
    [] OTHER -> 0

parseTimespan(value) ==
  IF value.isNum THEN [ok |-> TRUE, v |-> value.n, err |-> NoError]
  ELSE IF AllDigits(value.s)
  THEN [ok |-> TRUE, v |-> ParseInt(value.s), err |-> NoError]
  ELSE
    LET str == value.s
        match == /\ Len(str) >= 2
                 /\ AllDigits(SubSeq(str, 1, Len(str) - 1))
                 /\ str[Len(str)] \in {ASCII.s, ASCII.m, ASCII.h, ASCII.d}
    IN IF ~match
       THEN [ok |-> FALSE, v |-> 0, err |-> TypeError("Invalid timespan format")]
       ELSE [ok |-> TRUE,
             v |-> ParseInt(SubSeq(str, 1, Len(str) - 1)) * UnitSeconds(str[Len(str)]),
             err |-> NoError]

\* ----------------------------------------------------------- token engine

SUPPORTED_ALGS == {Lit.HS256, Lit.HS384, Lit.HS512}

\* SUPPORTED_ALGS[alg]: the hash named, as the tag of its digests.
NodeAlg(alg) ==
  CASE alg = Lit.HS256 -> 1
    [] alg = Lit.HS384 -> 2
    [] alg = Lit.HS512 -> 3
    [] OTHER -> 0

\* crypto.createHmac(nodeAlg, secret).update(input).digest(): collision-free,
\* so an injective tagging of (hash, key, message).
Hmac(nodeAlg, secret, input) == <<nodeAlg>> \o secret \o <<0>> \o input

createSignature(alg, secret, signingInput) ==
  IF NodeAlg(alg) = 0
  THEN [ok |-> FALSE, sig |-> <<>>, err |-> JsonWebTokenError("Unsupported algorithm")]
  ELSE [ok |-> TRUE, sig |-> base64urlEncode(Hmac(NodeAlg(alg), secret, signingInput)),
        err |-> NoError]

\* timingSafeEqualStr that compares the lengths alone.
equalLengthStr(a, b) == Len(a) = Len(b)

timingSafeEqualStr(a, b) ==
  IF Len(a) # Len(b) THEN FALSE
  ELSE \A i \in 1..Len(a) : a[i] = b[i]

NoSignOptions ==
  [ algorithm |-> Undefined, expiresIn |-> NoSpan, notBefore |-> NoSpan,
    issuer |-> Undefined, subject |-> Undefined, audience |-> Undefined,
    jwtid |-> Undefined, noTimestamp |-> FALSE, header |-> <<>>,
    keyid |-> Undefined, hasClock |-> FALSE, clockTimestamp |-> 0 ]

NoVerifyOptions ==
  [ hasAlgorithms |-> FALSE, algorithms |-> {}, issuer |-> Undefined,
    subject |-> Undefined, audience |-> Undefined, hasClock |-> FALSE,
    clockTimestamp |-> 0, clockTolerance |-> 0, maxAge |-> NoSpan ]

\* options.clockTimestamp when a number, else Math.floor(Date.now() / 1000).
NowOf(options, wallClock) ==
  IF options.hasClock THEN options.clockTimestamp ELSE wallClock

buildHeader(algorithm, options) ==
  LET header == ObjectAssign(<<<<Key.alg, JStr(algorithm)>>, <<Key.typ, JStr(Lit.JWT)>>>>,
                             options.header)
  IN IF options.keyid # Undefined THEN Put(header, Key.kid, JStr(options.keyid))
     ELSE header

\* if (cond) obj[k] = lex
PutIf(cond, obj, k, lex) == IF cond THEN Put(obj, k, lex) ELSE obj

\* buildPayload writing the claims into the caller's object itself
\* (const payloadCopy = payload).
buildPayloadInPlace(payload, options, wallClock) ==
  LET now == NowOf(options, wallClock)
      ex == parseTimespan(options.expiresIn)
      nb == parseTimespan(options.notBefore)
      p1 == PutIf(options.issuer # Undefined, payload, Key.iss, JStr(options.issuer))
      p2 == PutIf(options.subject # Undefined, p1, Key.sub, JStr(options.subject))
      p3 == PutIf(options.audience # Undefined, p2, Key.aud, JStr(options.audience))
      p4 == PutIf(options.jwtid # Undefined, p3, Key.jti, JStr(options.jwtid))
      Stamped(p) == PutIf(~options.noTimestamp /\ IsUndefined(Get(p, Key.iat)),
                          p, Key.iat, JNum(now))
      p6 == PutIf(Truthy(options.expiresIn) /\ ex.ok, Stamped(p4), Key.exp, JNum(now + ex.v))
      p7 == PutIf(Truthy(options.notBefore) /\ nb.ok, p6, Key.nbf, JNum(now + nb.v))
  IN IF Truthy(options.expiresIn) /\ ~ex.ok
     THEN [ok |-> FALSE, payload |-> <<>>, err |-> ex.err, argument |-> Stamped(p4)]
     ELSE IF Truthy(options.notBefore) /\ ~nb.ok
     THEN [ok |-> FALSE, payload |-> <<>>, err |-> nb.err, argument |-> p6]
     ELSE [ok |-> TRUE, payload |-> p7, err |-> NoError, argument |-> p7]

\* [ok, payload, err, argument]: the copy with the standard claims, or the
\* TypeError of parseTimespan; argument is the caller's object as the call
\* leaves it.  The claims are written into payloadCopy = { ...payload }, a
\* new object each call, so the caller's object keeps its members.
buildPayload(payload, options, wallClock) ==
  LET now == NowOf(options, wallClock)
      ex == parseTimespan(options.expiresIn)
      nb == parseTimespan(options.notBefore)
      payloadCopy == payload
      p1 == PutIf(options.issuer # Undefined, payloadCopy, Key.iss, JStr(options.issuer))
      p2 == PutIf(options.subject # Undefined, p1, Key.sub, JStr(options.subject))
      p3 == PutIf(options.audience # Undefined, p2, Key.aud, JStr(options.audience))
      p4 == PutIf(options.jwtid # Undefined, p3, Key.jti, JStr(options.jwtid))
      Stamped(p) == PutIf(~options.noTimestamp /\ IsUndefined(Get(p, Key.iat)),
                          p, Key.iat, JNum(now))
      p6 == PutIf(Truthy(options.expiresIn) /\ ex.ok, Stamped(p4), Key.exp, JNum(now + ex.v))
      p7 == PutIf(Truthy(options.notBefore) /\ nb.ok, p6, Key.nbf, JNum(now + nb.v))
  IN IF Truthy(options.expiresIn) /\ ~ex.ok
     THEN [ok |-> FALSE, payload |-> <<>>, err |-> ex.err, argument |-> payload]
     ELSE IF Truthy(options.notBefore) /\ ~nb.ok
     THEN [ok |-> FALSE, payload |-> <<>>, err |-> nb.err, argument |-> payload]
     ELSE [ok |-> TRUE, payload |-> p7, err |-> NoError, argument |-> payload]

SignFail(e) == [ok |-> FALSE, token |-> <<>>, err |-> e]

\* sign(payload, secret, options) at wall-clock second wallClock:
\* [ok, token, err, argument], argument being the caller's payload object as
\* the call leaves it.
sign(payload, secret, options, wallClock) ==
  LET Thrown(e, argument) ==
        [ok |-> FALSE, token |-> <<>>, err |-> e, argument |-> argument]
  IN
  IF secret = Undefined
  THEN Thrown(JsonWebTokenError("Secret is required for HMAC signing"), payload)
  ELSE
    LET algorithm == IF options.algorithm # Undefined
                     THEN options.algorithm ELSE Lit.HS256
        header == buildHeader(algorithm, options)
        Sealed(signingInput, argument) ==
          [ok |-> TRUE,
           token |-> signingInput \o <<Chr.dot>>
                       \o createSignature(algorithm, secret, signingInput).sig,
           err |-> NoError, argument |-> argument]
        Encoded(built) ==
          IF ~built.ok THEN Thrown(built.err, built.argument)
          ELSE Sealed(base64urlEncode(JsonStringify(header)) \o <<Chr.dot>>
                        \o base64urlEncode(JsonStringify(built.payload)),
                      built.argument)
    IN IF algorithm \notin SUPPORTED_ALGS
       THEN Thrown(JsonWebTokenError("Unsupported algorithm"), payload)
       ELSE Encoded(buildPayload(payload, options, wallClock))

\* String.split(sep): the pieces between the separators.
Split(str, sep) ==
  LET n == Len(str)
      at == SelectSeq([i \in 1..n |-> i], LAMBDA i : str[i] = sep)
      m == Len(at)
  IN [ k \in 1..(m + 1) |->
         SubSeq(str, IF k = 1 THEN 1 ELSE at[k - 1] + 1,
                     IF k = m + 1 THEN n ELSE at[k] - 1) ]

ParsedFail(e) ==
  [ ok |-> FALSE, encodedHeader |-> <<>>, encodedPayload |-> <<>>,
    signature |-> <<>>, header |-> <<>>, payload |-> <<>>, err |-> e ]

parseJwtToken(token) ==
  LET Decoded(parts, header, payload) ==
        IF ~header.ok \/ ~payload.ok
        THEN ParsedFail(JsonWebTokenError("Invalid JSON in token"))
        ELSE [ ok |-> TRUE, encodedHeader |-> parts[1], encodedPayload |-> parts[2],
               signature |-> parts[3], header |-> header.obj,
               payload |-> payload.obj, err |-> NoError ]
      Parts(parts) ==
        IF Len(parts) # 3 THEN ParsedFail(JsonWebTokenError("JWT malformed"))
        ELSE Decoded(parts, JsonParse(base64urlDecode(parts[1])),
                     JsonParse(base64urlDecode(parts[2])))
  IN Parts(Split(token, Chr.dot))

\* validateTimeClaims with the expiry boundary moved by one second: a token
\* is still taken at the second of its exp.
validateTimeClaimsLate(payload, options, wallClock) ==
  LET now == NowOf(options, wallClock)
      tolerance == options.clockTolerance
      nbf == Get(payload, Key.nbf)
      exp == Get(payload, Key.exp)
      iat == Get(payload, Key.iat)
      maxAge == parseTimespan(options.maxAge)
  IN IF ~IsUndefined(nbf) /\ ~IsNumber(nbf) THEN JsonWebTokenError("Invalid nbf")
     ELSE IF ~IsUndefined(nbf) /\ now + tolerance < NumOf(nbf)
     THEN NotBeforeError("jwt not active", NumOf(nbf))
     ELSE IF ~IsUndefined(exp) /\ ~IsNumber(exp) THEN JsonWebTokenError("Invalid exp")
     ELSE IF ~IsUndefined(exp) /\ now - tolerance > NumOf(exp)
     THEN TokenExpiredError("jwt expired", NumOf(exp))
     ELSE IF ~Truthy(options.maxAge) THEN NoError
     ELSE IF ~IsNumber(iat) THEN JsonWebTokenError("iat required when using maxAge")
     ELSE IF ~maxAge.ok THEN maxAge.err
     ELSE IF now - NumOf(iat) > maxAge.v + tolerance
     THEN TokenExpiredError("maxAge exceeded", NumOf(iat) + maxAge.v)
     ELSE NoError

\* The error validateTimeClaims throws, NoError when it returns.
validateTimeClaims(payload, options, wallClock) ==
  LET now == NowOf(options, wallClock)
      tolerance == options.clockTolerance
      nbf == Get(payload, Key.nbf)
      exp == Get(payload, Key.exp)
      iat == Get(payload, Key.iat)
      maxAge == parseTimespan(options.maxAge)
  IN IF ~IsUndefined(nbf) /\ ~IsNumber(nbf) THEN JsonWebTokenError("Invalid nbf")
     ELSE IF ~IsUndefined(nbf) /\ now + tolerance < NumOf(nbf)
     THEN NotBeforeError("jwt not active", NumOf(nbf))
     ELSE IF ~IsUndefined(exp) /\ ~IsNumber(exp) THEN JsonWebTokenError("Invalid exp")
     ELSE IF ~IsUndefined(exp) /\ now - tolerance >= NumOf(exp)
     THEN TokenExpiredError("jwt expired", NumOf(exp))
     ELSE IF ~Truthy(options.maxAge) THEN NoError
     ELSE IF ~IsNumber(iat) THEN JsonWebTokenError("iat required when using maxAge")
     ELSE IF ~maxAge.ok THEN maxAge.err
     ELSE IF now - NumOf(iat) > maxAge.v + tolerance
     THEN TokenExpiredError("maxAge exceeded", NumOf(iat) + maxAge.v)
     ELSE NoError

\* The error validateStandardClaims throws, NoError when it returns.
validateStandardClaims(payload, options) ==
  IF options.issuer # Undefined /\ Get(payload, Key.iss) # JStr(options.issuer)
  THEN JsonWebTokenError("invalid issuer")
  ELSE IF options.subject # Undefined /\ Get(payload, Key.sub) # JStr(options.subject)
  THEN JsonWebTokenError("invalid subject")
  ELSE IF options.audience # Undefined /\ Get(payload, Key.aud) # JStr(options.audience)
  THEN JsonWebTokenError("invalid audience")
  ELSE NoError

VerifyFail(e) == [ok |-> FALSE, payload |-> <<>>, err |-> e]

\* The algorithm named by a parsed header: its alg string, Undefined when
\* alg is absent or no string.
AlgOf(header) ==
  LET lex == Get(header, Key.alg)
  IN IF Len(lex) >= 2 /\ lex[1] = ASCII.quote THEN SubSeq(lex, 2, Len(lex) - 1)
     ELSE Undefined

\* verify without the check of options.algorithms.
verifyAnyAlgorithm(token, secret, options, wallClock) ==
  LET Checked(parsed, alg) ==
        LET signingInput == parsed.encodedHeader \o <<Chr.dot>> \o parsed.encodedPayload
            expectedSig == createSignature(alg, secret, signingInput)
            timeErr == validateTimeClaims(parsed.payload, options, wallClock)
            claimErr == validateStandardClaims(parsed.payload, options)
        IN IF alg \notin SUPPORTED_ALGS
           THEN VerifyFail(JsonWebTokenError("Unsupported algorithm"))
           ELSE IF ~timingSafeEqualStr(expectedSig.sig, parsed.signature)
           THEN VerifyFail(JsonWebTokenError("Invalid signature"))
           ELSE IF timeErr # NoError THEN VerifyFail(timeErr)
           ELSE IF claimErr # NoError THEN VerifyFail(claimErr)
           ELSE [ok |-> TRUE, payload |-> parsed.payload, err |-> NoError]
      Parsed(parsed) ==
        IF ~parsed.ok THEN VerifyFail(parsed.err)
        ELSE Checked(parsed, AlgOf(parsed.header))
  IN IF secret = Undefined
     THEN VerifyFail(JsonWebTokenError("Secret is required for HMAC verification"))
     ELSE Parsed(parseJwtToken(token))

\* verify(token, secret, options) at wall-clock second wallClock.
verify(token, secret, options, wallClock) ==
  LET Checked(parsed, alg) ==
        LET signingInput == parsed.encodedHeader \o <<Chr.dot>> \o parsed.encodedPayload
            expectedSig == createSignature(alg, secret, signingInput)
            timeErr == validateTimeClaims(parsed.payload, options, wallClock)
            claimErr == validateStandardClaims(parsed.payload, options)
        IN IF alg \notin SUPPORTED_ALGS
           THEN VerifyFail(JsonWebTokenError("Unsupported algorithm"))
           ELSE IF options.hasAlgorithms /\ alg \notin options.algorithms
           THEN VerifyFail(JsonWebTokenError("Invalid algorithm"))
           ELSE IF ~timingSafeEqualStr(expectedSig.sig, parsed.signature)
           THEN VerifyFail(JsonWebTokenError("Invalid signature"))
           ELSE IF timeErr # NoError THEN VerifyFail(timeErr)
           ELSE IF claimErr # NoError THEN VerifyFail(claimErr)
           ELSE [ok |-> TRUE, payload |-> parsed.payload, err |-> NoError]
      Parsed(parsed) ==
        IF ~parsed.ok THEN VerifyFail(parsed.err)
        ELSE Checked(parsed, AlgOf(parsed.header))
  IN IF secret = Undefined
     THEN VerifyFail(JsonWebTokenError("Secret is required for HMAC verification"))
     ELSE Parsed(parseJwtToken(token))

\* ------------------------------------------------------ bounds and inputs

\* Bounds of the model.
MaxTicks == 1
MaxTokens == 2
MaxRows == 2

\* users.id of the rows of the users table, and their usernames.
Users == {1, 2}
UserName(u) == IF u = 1 THEN <<97>> ELSE <<98>>

\* Secrets: the refresh secret, and the secret of another signer.
RefreshSecret == <<107>>
OtherSecret == <<120>>

\* Access lifetimes the callers pass: "1h", "1d" and the malformed "h".
Lifetimes == {<<49, ASCII.h>>, <<49, ASCII.d>>, <<ASCII.h>>}

\* expiresInDays arguments of storeRefreshToken.
DaysArgs == {1}

\* Seconds the clock may advance by in one step.
TickSteps == {1, 90000, 180000}

RECURSIVE ClocksWithin(_)
\* The values the clock can take within k advances.
ClocksWithin(k) ==
  IF k = 0 THEN {0}
  ELSE LET before == ClocksWithin(k - 1)
       IN before \cup {c + d : c \in before, d \in TickSteps}

ClockValues == ClocksWithin(MaxTicks)

\* ------------------------------------------------------------ JwtService

\* parseExpiresIn(str): the Codec's timespan parser on a string.
parseExpiresIn(str) == parseTimespan(StrSpan(str))

\* Math.ceil(a / b) for a >= 0, b > 0.
CeilDiv(a, b) == (a + b - 1) \div b

\* The formatter rendering every lifetime in hours.
renderInHours(finalSeconds) == Append(Decimal(finalSeconds \div 3600), ASCII.h)

\* The refresh-lifetime formatter: finalSeconds in its largest whole unit
\* among days, hours and minutes.
renderLifetime(finalSeconds) ==
  IF finalSeconds >= 86400 THEN Append(Decimal(finalSeconds \div 86400), ASCII.d)
  ELSE IF finalSeconds >= 3600 THEN Append(Decimal(finalSeconds \div 3600), ASCII.h)
  ELSE Append(Decimal(finalSeconds \div 60), ASCII.m)

\* The derivation without the 1800 s minimum.
calculateWithoutMinimum(accessTokenExpiresIn) ==
  LET access == parseExpiresIn(accessTokenExpiresIn)
  IN IF ~access.ok THEN [ok |-> FALSE, s |-> <<>>, err |-> access.err]
     ELSE [ok |-> TRUE, s |-> renderLifetime(access.v * 30), err |-> NoError]

\* [ok, s, err]: the refresh lifetime as a timespan string, or the parser's
\* error.
calculateRefreshTokenExpiration(accessTokenExpiresIn) ==
  LET access == parseExpiresIn(accessTokenExpiresIn)
      refreshTokenSeconds == access.v * 30
      finalSeconds == IF refreshTokenSeconds > 1800 THEN refreshTokenSeconds ELSE 1800
  IN IF ~access.ok THEN [ok |-> FALSE, s |-> <<>>, err |-> access.err]
     ELSE [ok |-> TRUE, s |-> renderLifetime(finalSeconds), err |-> NoError]

\* The payload and the options generateRefreshToken signs with.
RefreshClaims(userId, username) ==
  << <<Key.userId, JNum(userId)>>, <<Key.username, JStr(username)>>,
     <<Key.type, JStr(Lit.refresh)>> >>

RefreshSignOptions(refreshTokenExpiration) ==
  [NoSignOptions EXCEPT !.algorithm = Lit.HS256,
                        !.expiresIn = StrSpan(refreshTokenExpiration),
                        !.issuer = Lit.jcoderRefresh]

\* What another user of the token engine signs: an access-typed payload
\* under the refresh secret, or a refresh-typed payload under its own.
OtherClaims(asRefresh) ==
  << <<Key.userId, JNum(1)>>, <<Key.username, JStr(UserName(1))>>,
     <<Key.type, JStr(IF asRefresh THEN Lit.refresh ELSE Lit.JWT)>> >>

OtherSignOptions == [NoSignOptions EXCEPT !.algorithm = Lit.HS256]

OtherSignSecret(asRefresh) == IF asRefresh THEN OtherSecret ELSE RefreshSecret

\* The sign calls the bounded system can make, <<payload, options, secret,
\* clock>>, and their results, computed once.
SignCalls ==
  {<<RefreshClaims(u, UserName(u)),
     RefreshSignOptions(calculateRefreshTokenExpiration(life).s), RefreshSecret, c>> :
     u \in Users, life \in {l \in Lifetimes : calculateRefreshTokenExpiration(l).ok},
     c \in ClockValues}
  \cup {<<OtherClaims(b), OtherSignOptions, OtherSignSecret(b), c>> :
          b \in BOOLEAN, c \in ClockValues}

Signed == [call \in SignCalls |-> sign(call[1], call[3], call[2], call[4])]

\* JwtService.signWithCustomSecret(payload, options, secret)
signWithCustomSecret(payload, options, secret, wallClock) ==
  IF <<payload, options, secret, wallClock>> \in SignCalls
  THEN Signed[<<payload, options, secret, wallClock>>]
  ELSE sign(payload, secret, options, wallClock)

RECURSIVE SetToSeq(_)
SetToSeq(S) ==
  IF S = {} THEN <<>>
  ELSE LET Cons(x) == <<x>> \o SetToSeq(S \ {x}) IN Cons(CHOOSE x \in S : TRUE)

\* Every token string the bounded system can mint.  The state refers to a
\* token by its position in Minted (its handle); 0 is no token.
Minted == SetToSeq({Signed[call].token : call \in SignCalls})

\* Position of x in seq, 0 when absent.
Position(seq, x) ==
  IF \E i \in DOMAIN seq : seq[i] = x THEN CHOOSE i \in DOMAIN seq : seq[i] = x ELSE 0

Handle(token) == Position(Minted, token)

\* The verifications of minted tokens under the refresh secret, computed
\* once.
Verified ==
  [call \in {<<token, c>> : token \in {Signed[call].token : call \in SignCalls},
                            c \in ClockValues} |->
     verify(call[1], RefreshSecret, NoVerifyOptions, call[2])]

\* JwtService.verifyWithCustomSecret(token, secret)
verifyWithCustomSecret(token, secret, wallClock) ==
  IF secret = RefreshSecret /\ <<token, wallClock>> \in DOMAIN Verified
  THEN Verified[<<token, wallClock>>]
  ELSE verify(token, secret, NoVerifyOptions, wallClock)

\* -------------------------------------------------- refresh token service

\* process.env.REFRESH_TOKEN_SECRET unset reads as Undefined.
ConfigError ==
  [ name |-> "Error",
    message |-> "REFRESH_TOKEN_SECRET environment variable is required", at |-> 0 ]

\* [ok, token, err]
generateRefreshToken(userId, username, accessTokenExpiresIn, secret, wallClock) ==
  LET refreshTokenExpiration == calculateRefreshTokenExpiration(accessTokenExpiresIn)
  IN IF secret = Undefined THEN SignFail(ConfigError)
     ELSE IF ~refreshTokenExpiration.ok THEN SignFail(refreshTokenExpiration.err)
     ELSE signWithCustomSecret(RefreshClaims(userId, username),
                               RefreshSignOptions(refreshTokenExpiration.s),
                               secret, wallClock)

\* SHA-256 as hex: collision-free, so an injective function of the message
\* into short strings: a minted token hashes to its handle, any other
\* message to itself, each under its own tag.
hashRefreshToken(token) ==
  LET Tagged(h) == IF h # 0 THEN <<5, h>> ELSE <<4>> \o token
  IN Tagged(Handle(token))

\* Timestamps as the text the store holds and compares.  Both renderings put
\* the date first, then a separator, then the time of day, in fixed-width
\* decimal fields; Date.toISOString() separates with "T" and ends in
\* ".000Z", SQLite's datetime('now') separates with a space.
PadLeft(str, width) == Repeat(ASCII.zero, width - Len(str)) \o str
DateField(t) == PadLeft(Decimal(t \div 86400), 5)
TimeField(t) == PadLeft(Decimal(t % 86400), 5)
toISOString(t) == DateField(t) \o <<84>> \o TimeField(t) \o <<46, 48, 48, 48, 90>>
SqlDatetime(t) == DateField(t) \o <<ASCII.space>> \o TimeField(t)

RECURSIVE TextLess(_, _)
\* a < b for TEXT values (SQLite's BINARY collation: memcmp, then length).
TextLess(a, b) ==
  IF Len(b) = 0 THEN FALSE
  ELSE IF Len(a) = 0 THEN TRUE
  ELSE IF a[1] # b[1] THEN a[1] < b[1]
  ELSE TextLess(Tail(a), Tail(b))

\* The INSERT on a table whose token_hash column is not UNIQUE.
InsertUnchecked(rows, userId, tokenHash, expiresAt, createdAt) ==
  [ ok |-> TRUE,
    rows |-> rows \cup {[ user_id |-> userId, token_hash |-> tokenHash,
                          expires_at |-> expiresAt, created_at |-> createdAt ]},
    err |-> NoError ]

\* INSERT INTO refresh_tokens: [ok, rows, err]; token_hash is UNIQUE.
InsertRow(rows, userId, tokenHash, expiresAt, createdAt) ==
  IF \E r \in rows : r.token_hash = tokenHash
  THEN [ ok |-> FALSE, rows |-> rows,
         err |-> [ name |-> "SqliteError",
                   message |-> "UNIQUE constraint failed: refresh_tokens.token_hash",
                   at |-> 0 ] ]
  ELSE [ ok |-> TRUE,
         rows |-> rows \cup {[ user_id |-> userId, token_hash |-> tokenHash,
                               expires_at |-> expiresAt, created_at |-> createdAt ]},
         err |-> NoError ]

\* Time zones of the server: "UTC", and "DST", a zone on UTC until the
\* instant DstStart (01:00 of day 2) and one hour ahead of it from then on.
DstStart == 2 * 86400 + 3600
UtcOffset(tz, t) == IF tz = "DST" /\ t >= DstStart THEN 3600 ELSE 0

\* Date.setDate(Date.getDate() + days) on the date of instant t: the day
\* of the month is advanced on the local calendar, the local time of day
\* kept, and the result read back as an instant (a local time the change
\* of offset skips is read with the offset before the change).
setDate(tz, t, days) ==
  LET target == t + UtcOffset(tz, t) + days * 86400
  IN IF tz = "UTC" \/ target < DstStart + 3600 THEN target ELSE target - 3600

\* storeRefreshToken(userId, token, expiresInDays) in time zone tz:
\* [ok, rows, err]
storeRefreshToken(rows, userId, token, expiresInDays, wallClock, tz) ==
  InsertRow(rows, userId, hashRefreshToken(token),
            toISOString(setDate(tz, wallClock, expiresInDays)), toISOString(wallClock))

\* SELECT ... WHERE token_hash = ? AND expires_at > datetime('now')
SelectLive(rows, tokenHash, wallClock) ==
  {r \in rows : r.token_hash = tokenHash /\ TextLess(SqlDatetime(wallClock), r.expires_at)}

\* Statement.get(): a row of a non-empty result (token_hash is UNIQUE, so
\* the result of the lookup has one row at most).
FirstRow(result) == CHOOSE r \in result : TRUE

Null == [kind |-> "null", userId |-> <<>>, username |-> <<>>, err |-> NoError]
Identity(userId, username) ==
  [kind |-> "identity", userId |-> userId, username |-> username, err |-> NoError]

\* validateRefreshToken without the comparison of the row's user_id with the
\* token's userId claim.
validateAnyOwner(rows, token, secret, wallClock) ==
  LET Found(payload, dbResult) ==
        IF dbResult = {} THEN Null
        ELSE Identity(Get(payload, Key.userId), Get(payload, Key.username))
      Decoded(verified) ==
        IF ~verified.ok THEN Null
        ELSE IF Get(verified.payload, Key.type) # JStr(Lit.refresh) THEN Null
        ELSE Found(verified.payload, SelectLive(rows, hashRefreshToken(token), wallClock))
  IN IF secret = Undefined THEN Null
     ELSE Decoded(verifyWithCustomSecret(token, secret, wallClock))

\* validateRefreshToken(token): every throw inside is caught and read as null.
validateRefreshToken(rows, token, secret, wallClock) ==
  LET Found(payload, dbResult) ==
        IF dbResult = {} THEN Null
        ELSE IF JNum(FirstRow(dbResult).user_id) # Get(payload, Key.userId) THEN Null
        ELSE Identity(Get(payload, Key.userId), Get(payload, Key.username))
      Decoded(verified) ==
        IF ~verified.ok THEN Null
        ELSE IF Get(verified.payload, Key.type) # JStr(Lit.refresh) THEN Null
        ELSE Found(verified.payload, SelectLive(rows, hashRefreshToken(token), wallClock))
  IN IF secret = Undefined THEN Null
     ELSE Decoded(verifyWithCustomSecret(token, secret, wallClock))

\* revokeRefreshToken deleting by owner: every row of the users who hold a
\* row with the token's hash.
revokeOwnersRows(rows, token) ==
  LET Deleted(gone) ==
        [rows |-> {r \in rows : \A g \in gone : r.user_id # g.user_id},
         changes |-> Cardinality(gone)]
      Matching(tokenHash) == Deleted({r \in rows : r.token_hash = tokenHash})
  IN Matching(hashRefreshToken(token))

\* revokeRefreshToken(token): [rows, changes]
revokeRefreshToken(rows, token) ==
  LET Deleted(gone) == [rows |-> rows \ gone, changes |-> Cardinality(gone)]
      Matching(tokenHash) == Deleted({r \in rows : r.token_hash = tokenHash})
  IN Matching(hashRefreshToken(token))

\* revokeAllUserTokens without the WHERE clause: every row goes.
revokeEveryUsersTokens(rows, userId) ==
  [rows |-> {}, changes |-> Cardinality({r \in rows : r.user_id = userId})]

\* revokeAllUserTokens(userId): [rows, changes]
revokeAllUserTokens(rows, userId) ==
  LET gone == {r \in rows : r.user_id = userId}
  IN [rows |-> rows \ gone, changes |-> Cardinality(gone)]

\* cleanupExpiredTokens(): [rows, changes]
cleanupExpiredTokens(rows, wallClock) ==
  LET gone == {r \in rows : ~TextLess(SqlDatetime(wallClock), r.expires_at)}
  IN [rows |-> rows \ gone, changes |-> Cardinality(gone)]

\* rotateRefreshToken(oldToken, userId, accessTokenExpiresIn):
\* [kind, token, err, rows]; kind is "token", "null" or "throw"
\* (an exception leaves the function), rows the table it leaves behind.
rotateRefreshToken(rows, oldToken, userId, accessTokenExpiresIn, secret, wallClock, tz) ==
  LET refreshExpiration == calculateRefreshTokenExpiration(accessTokenExpiresIn)
      expirationSeconds == parseExpiresIn(refreshExpiration.s)
      expirationDays == CeilDiv(expirationSeconds.v, 86400)
      Stored(revoked, newToken, stored) ==
        IF ~stored.ok
        THEN [kind |-> "throw", token |-> <<>>, err |-> stored.err, rows |-> revoked]
        ELSE [kind |-> "token", token |-> newToken.token, err |-> NoError,
              rows |-> stored.rows]
      Generated(revoked, newToken) ==
        IF ~newToken.ok
        THEN [kind |-> "throw", token |-> <<>>, err |-> newToken.err, rows |-> revoked]
        ELSE Stored(revoked, newToken,
                    storeRefreshToken(revoked, userId, newToken.token,
                                      expirationDays, wallClock, tz))
      Validated(userInfo) ==
        IF userInfo.kind = "null" \/ userInfo.userId # JNum(userId)
        THEN [kind |-> "null", token |-> <<>>, err |-> NoError, rows |-> rows]
        ELSE Generated(revokeRefreshToken(rows, oldToken).rows,
                       generateRefreshToken(userId,
                                            SubSeq(userInfo.username, 2,
                                                   Len(userInfo.username) - 1),
                                            accessTokenExpiresIn, secret, wallClock))
  IN Validated(validateRefreshToken(rows, oldToken, secret, wallClock))

\* ------------------------------------------------------------ the system

VARIABLES
  store,    \* the rows of refresh_tokens
  clock,    \* wall clock, seconds since the epoch
  ticks,    \* clock advances so far
  env,      \* process.env.REFRESH_TOKEN_SECRET (Undefined: unset)
  issued,   \* handles of the token strings callers hold
  last,     \* the last call: its name, arguments and outcome
  jwt,      \* a use of the token engine alone: sign, alter, verify
  span,     \* a use of the lifetime derivation alone
  web,      \* the signup endpoint: the users table and the requests in flight
  page,     \* the dashboard page: its React state and its pending callbacks
  zone      \* the time zone of the server process

vars == <<store, clock, ticks, env, issued, last, jwt, span, web, page, zone>>

\* The endpoint and the page when no request and no page exists.
NoWeb == [stage |-> "off"]
NoPage == [stage |-> "off"]

\* The outcome of a call: kind is "void", "null", "throw", "token",
\* "identity", "bool" or "count"; token is the handle of a returned token.
Outcome(kind, token, id, err, n) ==
  [kind |-> kind, token |-> token, userId |-> id.userId, username |-> id.username,
   err |-> err, n |-> n]

Call(op, token, user, life, out) ==
  [op |-> op, token |-> token, user |-> user, life |-> life, out |-> out]

\* The token engine and the lifetime derivation, not in use.
NoJwt ==
  [ stage |-> "none", payload |-> <<>>, secret |-> Undefined, options |-> NoSignOptions,
    signedAt |-> 0, signed |-> SignFail(NoError), token |-> <<>>, altered |-> FALSE,
    vsecret |-> Undefined, voptions |-> NoVerifyOptions, at |-> 0,
    verified |-> VerifyFail(NoError), complete |-> FALSE,
    decoded |-> [kind |-> "none"] ]

NoLifetime ==
  [ stage |-> "none", access |-> <<>>,
    derived |-> [ok |-> FALSE, s |-> <<>>, err |-> NoError] ]

\* The service at rest: an empty table, no token issued.
ServiceInit ==
  /\ store = {}
  /\ clock = 0
  /\ ticks = 0
  /\ issued = {}
  /\ last = Call("init", 0, 0, <<>>, Outcome("void", 0, Null, NoError, 0))
  /\ web = NoWeb
  /\ page = NoPage
  /\ zone = "UTC"

Init ==
  /\ ServiceInit
  /\ env \in {Undefined, RefreshSecret}
  /\ jwt = NoJwt
  /\ span = NoLifetime

Tick(d) ==
  /\ ticks < MaxTicks
  /\ clock' = clock + d
  /\ ticks' = ticks + 1
  /\ last' = Call("tick", 0, 0, <<>>, Outcome("void", 0, Null, NoError, 0))
  /\ UNCHANGED <<store, env, issued, jwt, span, web, page, zone>>

Holds(h) == h \in issued \/ Cardinality(issued) < MaxTokens

\* issue: generateRefreshToken(userId, username, accessTokenExpiresIn)
Generate(u, life) ==
  \E r \in {generateRefreshToken(u, UserName(u), life, env, clock)} :
    \E h \in {Handle(r.token)} :
      /\ r.ok => Holds(h)
      /\ issued' = IF r.ok THEN issued \cup {h} ELSE issued
      /\ last' = Call("generate", 0, u, life,
                      Outcome(IF r.ok THEN "token" ELSE "throw", h, Null, r.err, 0))
      /\ UNCHANGED <<store, clock, ticks, env, jwt, span, web, page, zone>>

\* Another user of the token engine signs a token.
SignOther(asRefresh) ==
  \E r \in {signWithCustomSecret(OtherClaims(asRefresh), OtherSignOptions,
                                 OtherSignSecret(asRefresh), clock)} :
    \E h \in {Handle(r.token)} :
      /\ Holds(h)
      /\ issued' = issued \cup {h}
      /\ last' = Call("signOther", 0, 1, <<>>, Outcome("token", h, Null, NoError, 0))
      /\ UNCHANGED <<store, clock, ticks, env, jwt, span, web, page, zone>>

\* persist: storeRefreshToken(userId, token, expiresInDays)
Persist(u, h, days) ==
  \E r \in {storeRefreshToken(store, u, Minted[h], days, clock, zone)} :
    /\ Cardinality(store) < MaxRows
    /\ store' = r.rows
    /\ last' = Call("persist", h, u, <<>>,
                    Outcome(IF r.ok THEN "void" ELSE "throw", 0, Null, r.err, days))
    /\ UNCHANGED <<clock, ticks, env, issued, jwt, span, web, page, zone>>

Validate(h) ==
  \E r \in {validateRefreshToken(store, Minted[h], env, clock)} :
    /\ last' = Call("validate", h, 0, <<>>, Outcome(r.kind, 0, r, NoError, 0))
    /\ UNCHANGED <<store, clock, ticks, env, issued, jwt, span, web, page, zone>>

Revoke(h) ==
  \E r \in {revokeRefreshToken(store, Minted[h])} :
    /\ store' = r.rows
    /\ last' = Call("revoke", h, 0, <<>>, Outcome("bool", 0, Null, NoError, r.changes))
    /\ UNCHANGED <<clock, ticks, env, issued, jwt, span, web, page, zone>>

RevokeAll(u) ==
  \E r \in {revokeAllUserTokens(store, u)} :
    /\ store' = r.rows
    /\ last' = Call("revokeAll", 0, u, <<>>, Outcome("count", 0, Null, NoError, r.changes))
    /\ UNCHANGED <<clock, ticks, env, issued, jwt, span, web, page, zone>>

Cleanup ==
  \E r \in {cleanupExpiredTokens(store, clock)} :
    /\ store' = r.rows
    /\ last' = Call("cleanup", 0, 0, <<>>, Outcome("count", 0, Null, NoError, r.changes))
    /\ UNCHANGED <<clock, ticks, env, issued, jwt, span, web, page, zone>>

Rotate(h, u, life) ==
  \E r \in {rotateRefreshToken(store, Minted[h], u, life, env, clock, zone)} :
    \E new \in {Handle(r.token)} :
      /\ r.kind = "token" => Holds(new)
      /\ store' = r.rows
      /\ issued' = IF r.kind = "token" THEN issued \cup {new} ELSE issued
      /\ last' = Call("rotate", h, u, life, Outcome(r.kind, new, Null, r.err, 0))
      /\ UNCHANGED <<clock, ticks, env, jwt, span, web, page, zone>>

Next ==
  \/ \E d \in TickSteps : Tick(d)
  \/ \E u \in Users, life \in Lifetimes : Generate(u, life)
  \/ \E asRefresh \in BOOLEAN : SignOther(asRefresh)
  \/ \E u \in Users, h \in issued, days \in DaysArgs : Persist(u, h, days)
  \/ \E h \in issued : Validate(h)
  \/ \E h \in issued : Revoke(h)
  \/ \E u \in Users : RevokeAll(u)
  \/ Cleanup
  \/ \E h \in issued, u \in Users, life \in Lifetimes : Rotate(h, u, life)

Spec == Init /\ [][Next]_vars

\* -------------------------------------------- properties of the service

\* What validate would return for the token with handle h, now.
ValidateNow(h) == validateRefreshToken(store, Minted[h], env, clock)

\* The identity of user u, as validate returns it.
IdentityOf(u) == Identity(JNum(u), JStr(UserName(u)))

\* Date.parse of a text toISOString wrote: seconds since the epoch.
fromISOString(text) == ParseInt(SubSeq(text, 1, 5)) * 86400 + ParseInt(SubSeq(text, 7, 11))

\* The rows that hold the hash of the token with handle h.
RowsOf(h) == {r \in store : r.token_hash = hashRefreshToken(Minted[h])}

\* C1: after every successful rotate(old, userId, accessLifetime), validate(old)
\* returns null and validate(new) returns the {userId, username} of the
\* owning user.
C1_RotationInvalidatesOld ==
  (last.op = "rotate" /\ last.out.kind = "token") =>
    /\ ValidateNow(last.token) = Null
    /\ ValidateNow(last.out.token) = IdentityOf(last.user)

\* C6: rotate with a well-formed access lifetime never raises: it returns a
\* new token or null, whatever the store holds.
C6_RotateNeverRaises ==
  (last.op = "rotate" /\ calculateRefreshTokenExpiration(last.life).ok) =>
    last.out.kind \in {"token", "null"}

\* C7: validate never raises; it returns an identity only if the token
\* verifies under the refresh secret, its type claim is "refresh", a store
\* row holds its hash and that row's user_id equals its userId claim; the
\* identity returned is the token's own userId and username claims.
C7_ValidateSound ==
  last.op = "validate" =>
    /\ last.out.kind \in {"null", "identity"}
    /\ last.out.kind = "identity" =>
         LET token == Minted[last.token]
             verified == verify(token, RefreshSecret, NoVerifyOptions, clock)
         IN /\ env = RefreshSecret
            /\ verified.ok
            /\ Get(verified.payload, Key.type) = JStr(Lit.refresh)
            /\ \E r \in RowsOf(last.token) :
                 JNum(r.user_id) = Get(verified.payload, Key.userId)
            /\ last.out.userId = Get(verified.payload, Key.userId)
            /\ last.out.username = Get(verified.payload, Key.username)

\* C7 witness: validate has returned the identity of a stored token.
C7_Witness ==
  /\ last.op = "validate"
  /\ last.out.kind = "identity"
  /\ RowsOf(last.token) # {}

\* C8: validate returns null for a token whose store row has an expires_at
\* at or before now, even if the token's own exp is in the future.
C8_ExpiredRowsExcluded ==
  (last.op = "validate" /\ \E r \in RowsOf(last.token) : fromISOString(r.expires_at) <= clock)
    => last.out.kind = "null"

\* C9: a refresh token just issued to a user who already has tokens stored
\* (and nobody else has) can be persisted for that user, whenever and with
\* whatever lifetime the stored tokens were issued.
C9_IssuedTokenPersists ==
  (/\ last.op = "generate"
   /\ last.out.kind = "token"
   /\ store # {}
   /\ \A r \in store : r.user_id = last.user) =>
    \A days \in DaysArgs :
      storeRefreshToken(store, last.user, Minted[last.out.token], days, clock, zone).ok

\* C10: with the refresh secret unset, issue, validate and rotate fail with
\* the configuration error.
C10_ConfigErrorSurfaces ==
  (env = Undefined /\ last.op \in {"generate", "validate", "rotate"}) =>
    /\ last.out.kind = "throw"
    /\ last.out.err = ConfigError

\* The userId claim of each minted token, decoded once.
OwnerClaim == [h \in 1..Len(Minted) |-> Get(parseJwtToken(Minted[h]).payload, Key.userId)]

\* C12: revoke(token) deletes exactly the rows whose hash is the token's,
\* returns true iff there was one (so revoking again returns false), leaves
\* every other row as it was, and validate(token) returns null afterwards;
\* rows with that hash come back only by a persist or a rotate.
C12_RevokeDeletesExactly ==
  [][ /\ last'.op = "revoke" =>
           LET gone == {r \in store : r.token_hash = hashRefreshToken(Minted[last'.token])}
           IN /\ store' = store \ gone
              /\ (last'.out.n > 0) <=> (gone # {})
              /\ (last.op = "revoke" /\ last.token = last'.token) => last'.out.n = 0
              /\ validateRefreshToken(store', Minted[last'.token], env', clock') = Null
      /\ last'.op \notin {"persist", "rotate"} =>
           \A h \in issued :
             (\A r \in store : r.token_hash # hashRefreshToken(Minted[h])) =>
               /\ \A r \in store' : r.token_hash # hashRefreshToken(Minted[h])
               /\ validateRefreshToken(store', Minted[h], env', clock') = Null
    ]_vars

\* C12 witness: a revoke has deleted a row and left another in the table.
C12_Witness ==
  /\ last.op = "revoke"
  /\ last.out.n > 0
  /\ store # {}
  /\ RowsOf(last.token) = {}

\* C13: revokeAll(userId) deletes every row of that user and returns their
\* number; the rows of other users stay; afterwards validate returns null for
\* every token issued to that user, and the tokens of other users validate
\* as before.
C13_RevokeAllDeletesUsersRows ==
  [][ last'.op = "revokeAll" =>
        LET gone == {r \in store : r.user_id = last'.user}
        IN /\ store' = store \ gone
           /\ last'.out.n = Cardinality(gone)
           /\ \A h \in issued :
                IF OwnerClaim[h] = JNum(last'.user)
                THEN validateRefreshToken(store', Minted[h], env', clock') = Null
                ELSE validateRefreshToken(store', Minted[h], env', clock')
                       = validateRefreshToken(store, Minted[h], env, clock)
    ]_vars

\* C13 witness: a revokeAll has deleted rows while a token of another user
\* still validates.
C13_Witness ==
  /\ last.op = "revokeAll"
  /\ last.out.n > 0
  /\ \E h \in issued :
       /\ OwnerClaim[h] # JNum(last.user)
       /\ ValidateNow(h).kind = "identity"

\* C14: after sweepExpired no row whose expiresAt has passed is left in the
\* table, and every row is either found by validate's lookup or deleted by
\* the sweep, never both and never neither.
C14_SweepDeletesExpired ==
  /\ last.op = "cleanup" => \A r \in store : fromISOString(r.expires_at) > clock
  /\ \A r \in store :
       (r \in SelectLive(store, r.token_hash, clock))
         <=> (r \in cleanupExpiredTokens(store, clock).rows)

\* ------------------------------------------------- the token engine alone

\* What the callers of sign pass: payloads, algorithms (Undefined: none
\* given), extra header members, lifetimes and issuers; and calls with
\* every claim option set, the lifetimes well-formed or not ("h").
Payloads ==
  { << <<Key.userId, JNum(1)>> >>,
    << <<Key.userId, JNum(2)>>, <<Key.type, JStr(Lit.refresh)>> >> }

Algorithms == {Undefined, Lit.HS256, Lit.HS384, Lit.HS512}

ExtraHeaders ==
  { <<>>, << <<Key.kid, JStr(<<49>>)>> >>, << <<Key.alg, JStr(Lit.HS384)>> >> }

ExpiresIns == {NoSpan, StrSpan(<<49, ASCII.h>>)}

Issuers == {Undefined, Lit.jcoderRefresh}

SignOptionsSet ==
  { [NoSignOptions EXCEPT !.algorithm = a, !.header = h, !.expiresIn = e, !.issuer = i] :
      a \in Algorithms, h \in ExtraHeaders, e \in ExpiresIns, i \in Issuers }
  \cup { [NoSignOptions EXCEPT !.issuer = Lit.jcoderRefresh, !.subject = <<49>>,
                               !.audience = <<50>>, !.jwtid = <<51>>,
                               !.expiresIn = e, !.notBefore = n, !.noTimestamp = t] :
           e \in {NumSpan(2), StrSpan(<<ASCII.h>>)},
           n \in {NumSpan(1), StrSpan(<<ASCII.h>>)}, t \in BOOLEAN }

\* What the callers of verify pass: secrets, allow-lists (none, or a list,
\* the empty one included), the expected issuer, and the second they call.
VerifySecrets == {RefreshSecret, OtherSecret}

VerifyOptionsSet ==
  {NoVerifyOptions}
  \cup { [NoVerifyOptions EXCEPT !.hasAlgorithms = TRUE, !.algorithms = l, !.issuer = i] :
           l \in {{}, {Lit.HS256}, {Lit.HS384}}, i \in Issuers }

VerifyTimes == {0, 3600}

\* A call of sign about to be made.
JwtInput(payload, secret, options) ==
  [NoJwt EXCEPT !.stage = "input", !.payload = payload, !.secret = secret,
                !.options = options]

InitJwt ==
  /\ ServiceInit
  /\ env = RefreshSecret
  /\ span = NoLifetime
  /\ jwt \in {JwtInput(p, RefreshSecret, o) : p \in Payloads, o \in SignOptionsSet}

\* sign(payload, secret, options)
JwtSign ==
  /\ jwt.stage = "input"
  /\ \E r \in {sign(jwt.payload, jwt.secret, jwt.options, jwt.signedAt)} :
       jwt' = [jwt EXCEPT !.stage = "signed", !.signed = r, !.token = r.token,
                          !.payload = r.argument]
  /\ UNCHANGED <<store, clock, ticks, env, issued, last, span, web, page, zone>>

\* verify(token, secret, options), at second `at`
JwtVerify(secret, options, at) ==
  /\ jwt.stage \in {"signed", "altered"}
  /\ jwt.signed.ok
  /\ jwt' = [jwt EXCEPT !.stage = "verified", !.vsecret = secret, !.voptions = options,
                        !.at = at, !.verified = verify(jwt.token, secret, options, at)]
  /\ UNCHANGED <<store, clock, ticks, env, issued, last, span, web, page, zone>>

NextJwt ==
  \/ JwtSign
  \/ \E secret \in VerifySecrets, options \in VerifyOptionsSet, at \in VerifyTimes :
       JwtVerify(secret, options, at)

SpecJwt == InitJwt /\ [][NextJwt]_vars

\* The header of the token in hand.
HeaderAlg == AlgOf(parseJwtToken(jwt.token).header)

\* C2: verify, with the signing secret and at the second of signing, of
\* what sign returned succeeds and returns the payload with the standard
\* claims sign added, whatever extra header members the caller gave.
C2_RoundTrip ==
  ( /\ jwt.stage = "verified"
    /\ jwt.vsecret = jwt.secret
    /\ jwt.voptions = NoVerifyOptions
    /\ jwt.at = jwt.signedAt )
  => /\ jwt.verified.ok
     /\ jwt.verified.payload
          = buildPayload(jwt.payload, jwt.options, jwt.signedAt).payload

\* C4: verify rejects, with an algorithm error, every token whose header
\* algorithm is not in the allow-list given, whatever the secret, the
\* signature and the claims.
C4_AllowListEnforced ==
  ( /\ jwt.stage = "verified"
    /\ jwt.voptions.hasAlgorithms
    /\ HeaderAlg \notin jwt.voptions.algorithms )
  => /\ ~jwt.verified.ok
     /\ jwt.verified.err.name = "JsonWebTokenError"
     /\ jwt.verified.err.message \in {"Invalid algorithm", "Unsupported algorithm"}

\* C4 witness: an HS256 token that verifies without an allow-list is
\* rejected under the allow-list ["HS384"] with the signing secret.
C4_Witness ==
  /\ jwt.stage = "verified"
  /\ HeaderAlg = Lit.HS256
  /\ jwt.voptions.hasAlgorithms
  /\ jwt.voptions.algorithms = {Lit.HS384}
  /\ jwt.vsecret = jwt.secret
  /\ verify(jwt.token, jwt.secret, NoVerifyOptions, jwt.at).ok
  /\ ~jwt.verified.ok

\* -------------------------------------------------- altering a signed token

\* Every character a token can be made to hold: both base64 alphabets, the
\* padding, the separator, and a character outside them all.
Chars == 0..Chr.bang

\* The algorithms of the tokens that get altered.
AlteredAlgorithms == {Lit.HS256, Lit.HS512}

InitTamper ==
  /\ ServiceInit
  /\ env = RefreshSecret
  /\ span = NoLifetime
  /\ jwt \in { JwtInput(<< <<Key.userId, JNum(1)>> >>, RefreshSecret,
                        [NoSignOptions EXCEPT !.algorithm = a]) :
               a \in AlteredAlgorithms }

\* One character of a segment of the token becomes another character.
JwtAlter(i, c) ==
  /\ jwt.stage = "signed"
  /\ jwt.signed.ok
  /\ i \in 1..Len(jwt.token)
  /\ jwt.token[i] # Chr.dot
  /\ c # jwt.token[i]
  /\ jwt' = [jwt EXCEPT !.stage = "altered", !.altered = TRUE, !.token[i] = c]
  /\ UNCHANGED <<store, clock, ticks, env, issued, last, span, web, page, zone>>

NextTamper ==
  \/ JwtSign
  \/ \E i \in 1..Len(jwt.token), c \in Chars : JwtAlter(i, c)
  \/ JwtVerify(jwt.secret, NoVerifyOptions, jwt.signedAt)

SpecTamper == InitTamper /\ [][NextTamper]_vars

\* C3 as stated: verify of a token with one character altered fails with
\* the invalid-signature error or a malformed-token error.
C3_TamperSignatureOrMalformed ==
  (jwt.stage = "verified" /\ jwt.altered) =>
    /\ ~jwt.verified.ok
    /\ jwt.verified.err.message
         \in {"Invalid signature", "JWT malformed", "Invalid JSON in token"}

\* C3: verify of a token with one character altered never returns a
\* payload: it fails with the invalid-signature error, a malformed-token
\* error or the unsupported-algorithm error.
C3_TamperRejected ==
  (jwt.stage = "verified" /\ jwt.altered) =>
    /\ ~jwt.verified.ok
    /\ jwt.verified.err.name = "JsonWebTokenError"
    /\ jwt.verified.err.message
         \in {"Invalid signature", "JWT malformed", "Invalid JSON in token",
              "Unsupported algorithm"}

\* C3 witness: an altered header that still parses, naming no supported
\* algorithm, has been rejected.
C3_Witness ==
  /\ jwt.stage = "verified"
  /\ jwt.altered
  /\ ~jwt.verified.ok
  /\ jwt.verified.err.message = "Unsupported algorithm"

\* ------------------------------------------- the lifetime derivation alone

\* The largest amount of an access lifetime.
MaxAmount == 30

Units == {ASCII.s, ASCII.m, ASCII.h, ASCII.d}

\* Access lifetimes: every amount in every unit, plain numbers of seconds
\* ("0", "45", "2000"), and the malformed "h".
AccessLifetimes ==
  {Append(Decimal(n), u) : n \in 0..MaxAmount, u \in Units}
  \cup {Decimal(n) : n \in {0, 45, 2000}} \cup {<<ASCII.h>>}

InitLifetime ==
  /\ ServiceInit
  /\ env = RefreshSecret
  /\ jwt = NoJwt
  /\ span \in {[NoLifetime EXCEPT !.stage = "input", !.access = a] : a \in AccessLifetimes}

\* calculateRefreshTokenExpiration(accessTokenExpiresIn)
Derive ==
  /\ span.stage = "input"
  /\ span' = [span EXCEPT !.stage = "derived",
                          !.derived = calculateRefreshTokenExpiration(span.access)]
  /\ UNCHANGED <<store, clock, ticks, env, issued, last, jwt, web, page, zone>>

NextLifetime == Derive

SpecLifetime == InitLifetime /\ [][NextLifetime]_vars

\* C5 as stated: "1h" gives "30h", "5s" gives "30m" and "1d" gives "30d",
\* and in general the result denotes max(30 x access lifetime, 1800 s).
C5_LifetimeIsMax ==
  (span.stage = "derived" /\ span.derived.ok) =>
    LET Denotes(str, secs) == parseTimespan(StrSpan(str)).v = secs
        Wanted(secs) == IF 30 * secs > 1800 THEN 30 * secs ELSE 1800
    IN /\ span.access = <<49, ASCII.h>> => span.derived.s = <<51, 48, ASCII.h>>
       /\ span.access = <<53, ASCII.s>> => span.derived.s = <<51, 48, ASCII.m>>
       /\ span.access = <<49, ASCII.d>> => span.derived.s = <<51, 48, ASCII.d>>
       /\ Denotes(span.derived.s, Wanted(parseTimespan(StrSpan(span.access)).v))

\* C16: the allow-list restricts only when it is a non-empty list: without
\* one, or with an empty one, every token whose header names a supported
\* algorithm passes the algorithm check; with a non-empty one it passes iff
\* its algorithm is a member.
C16_EmptyAllowListAcceptsAll ==
  (jwt.stage = "verified" /\ HeaderAlg \in SUPPORTED_ALGS) =>
    LET passes == \/ jwt.verified.ok
                  \/ jwt.verified.err.message
                       \notin {"Invalid algorithm", "Unsupported algorithm"}
        restricts == jwt.voptions.hasAlgorithms /\ jwt.voptions.algorithms # {}
    IN passes <=> (~restricts \/ HeaderAlg \in jwt.voptions.algorithms)

\* ------------------------------------------------ the time claims alone

\* The last second of the clock.
MaxSecond == 4

ClaimTimes == 0..MaxSecond

\* Payloads without and with an exp of the caller's.
ClaimPayloads ==
  { << <<Key.userId, JNum(1)>> >>,
    << <<Key.userId, JNum(1)>>, <<Key.exp, JNum(3)>> >> }

\* Sign options: expiresIn and notBefore absent, 0, "0", 1, 2, "2s"; with and
\* without iat; now from the wall clock (second 0) or from clockTimestamp
\* (second 1).
ClaimSignOptions ==
  { [NoSignOptions EXCEPT !.expiresIn = e, !.notBefore = n, !.noTimestamp = t,
                          !.hasClock = c, !.clockTimestamp = IF c THEN 1 ELSE 0] :
      e \in {NoSpan, NumSpan(0), StrSpan(<<48>>), NumSpan(2), StrSpan(<<50, ASCII.s>>)},
      n \in {NoSpan, NumSpan(0), NumSpan(1)},
      t \in BOOLEAN, c \in BOOLEAN }

\* Verify options: tolerance 0 or 1; maxAge absent, 0, "0" or 1; now from the
\* wall clock or from clockTimestamp.
ClaimVerifyOptions ==
  { [NoVerifyOptions EXCEPT !.clockTolerance = t, !.maxAge = a, !.hasClock = c] :
      t \in {0, 1},
      a \in {NoSpan, NumSpan(0), StrSpan(<<48>>), NumSpan(1)},
      c \in BOOLEAN }

\* The options and the wall clock of a verify whose `now` is second t.
AtTime(options, t) ==
  IF options.hasClock THEN [options EXCEPT !.clockTimestamp = t] ELSE options
WallAt(options, t) == IF options.hasClock THEN 0 ELSE t

InitClaims ==
  /\ ServiceInit
  /\ env = RefreshSecret
  /\ span = NoLifetime
  /\ jwt \in {JwtInput(p, RefreshSecret, o) : p \in ClaimPayloads, o \in ClaimSignOptions}

\* verify(token, secret, options) at second t
ClaimsVerify(options, t) ==
  /\ jwt.stage = "signed"
  /\ jwt.signed.ok
  /\ jwt' = [jwt EXCEPT !.stage = "verified", !.vsecret = jwt.secret,
                        !.voptions = AtTime(options, t), !.at = t,
                        !.verified = verify(jwt.token, jwt.secret, AtTime(options, t),
                                            WallAt(options, t))]
  /\ UNCHANGED <<store, clock, ticks, env, issued, last, span, web, page, zone>>

\* The same verify again, at a later second t.
ClaimsVerifyLater(t) ==
  /\ jwt.stage = "verified"
  /\ t > jwt.at
  /\ jwt' = [jwt EXCEPT !.voptions = AtTime(jwt.voptions, t), !.at = t,
                        !.verified = verify(jwt.token, jwt.secret, AtTime(jwt.voptions, t),
                                            WallAt(jwt.voptions, t))]
  /\ UNCHANGED <<store, clock, ticks, env, issued, last, span, web, page, zone>>

NextClaims ==
  \/ JwtSign
  \/ \E options \in ClaimVerifyOptions, t \in ClaimTimes : ClaimsVerify(options, t)
  \/ \E t \in ClaimTimes : ClaimsVerifyLater(t)

SpecClaims == InitClaims /\ [][NextClaims]_vars

\* The claims of the token in hand.
TokenClaims == parseJwtToken(jwt.token).payload

C15_SignSetsExpiry ==
  (jwt.stage = "signed" /\ jwt.signed.ok) =>
    LET now == IF jwt.options.hasClock THEN jwt.options.clockTimestamp ELSE jwt.signedAt
    IN /\ (jwt.options.expiresIn # NoSpan /\ parseTimespan(jwt.options.expiresIn).ok) =>
            Get(TokenClaims, Key.exp) = JNum(now + parseTimespan(jwt.options.expiresIn).v)
       /\ (jwt.options.notBefore # NoSpan /\ parseTimespan(jwt.options.notBefore).ok) =>
            Get(TokenClaims, Key.nbf) = JNum(now + parseTimespan(jwt.options.notBefore).v)

\* C18: whenever maxAge is given to verify as a value parseTimespan accepts
\* and the nbf and exp checks pass, verify fails with the invalid-claim error
\* if iat is not a number, and else fails with the expired error, carrying
\* iat + maxAge, exactly when now - iat > parseTimespan(maxAge) + tolerance.
C18_MaxAgeEnforced ==
  ( /\ jwt.stage = "verified"
    /\ jwt.voptions.maxAge # NoSpan
    /\ parseTimespan(jwt.voptions.maxAge).ok
    /\ validateTimeClaims(TokenClaims, [jwt.voptions EXCEPT !.maxAge = NoSpan],
                          WallAt(jwt.voptions, jwt.at)) = NoError )
  => LET iat == Get(TokenClaims, Key.iat)
         maxAge == parseTimespan(jwt.voptions.maxAge).v
     IN IF ~IsNumber(iat)
        THEN /\ ~jwt.verified.ok
             /\ jwt.verified.err = JsonWebTokenError("iat required when using maxAge")
        ELSE (jwt.at - NumOf(iat) > maxAge + jwt.voptions.clockTolerance)
               <=> /\ ~jwt.verified.ok
                   /\ jwt.verified.err
                        = TokenExpiredError("maxAge exceeded", NumOf(iat) + maxAge)

\* ------------------------------------------------- tokens out of shape

RECURSIVE Join(_)
\* Array.join("."): the segments with the separator between them.
Join(parts) ==
  IF Len(parts) = 0 THEN <<>>
  ELSE IF Len(parts) = 1 THEN parts[1]
  ELSE parts[1] \o <<Chr.dot>> \o Join(Tail(parts))

\* The ways a token reaches verify out of shape.
Shapes ==
  { "noHeader", "noPayload", "noSignature", "oneSegment", "twoSegments",
    "fourSegments", "cutHeader", "cutPayload" }

\* A token string of the given shape, made of the segments of a signed one.
Reshaped(token, shape) ==
  LET Of(h, p, sg) ==
        CASE shape = "noHeader" -> Join(<< <<>>, p, sg >>)
          [] shape = "noPayload" -> Join(<< h, <<>>, sg >>)
          [] shape = "noSignature" -> Join(<< h, p, <<>> >>)
          [] shape = "oneSegment" -> h
          [] shape = "twoSegments" -> Join(<< h, p >>)
          [] shape = "fourSegments" -> Join(<< h, p, sg, sg >>)
          [] shape = "cutHeader" -> Join(<< SubSeq(h, 1, Len(h) - 1), p, sg >>)
          [] shape = "otherSignature" ->
               Join(<< h, p, <<(sg[1] + 1) % 64>> \o Tail(sg) >>)
          [] shape = "cutSignature" -> Join(<< h, p, SubSeq(sg, 1, Len(sg) - 1) >>)
          [] OTHER -> Join(<< h, SubSeq(p, 1, Len(p) - 1), sg >>)
      Parts(parts) == Of(parts[1], parts[2], parts[3])
  IN Parts(Split(token, Chr.dot))

InitShapes ==
  /\ ServiceInit
  /\ env = RefreshSecret
  /\ span = NoLifetime
  /\ jwt \in { JwtInput(p, RefreshSecret,
                        [NoSignOptions EXCEPT !.algorithm = a, !.expiresIn = e]) :
               p \in Payloads, a \in SUPPORTED_ALGS, e \in ExpiresIns }

\* The token reaches the verifier in another shape.
JwtReshape(shape) ==
  /\ jwt.stage = "signed"
  /\ jwt.signed.ok
  /\ jwt' = [jwt EXCEPT !.stage = "altered", !.altered = TRUE,
                        !.token = Reshaped(jwt.token, shape)]
  /\ UNCHANGED <<store, clock, ticks, env, issued, last, span, web, page, zone>>

NextShapes ==
  \/ JwtSign
  \/ \E shape \in Shapes : JwtReshape(shape)
  \/ JwtVerify(jwt.secret, NoVerifyOptions, jwt.signedAt)

SpecShapes == InitShapes /\ [][NextShapes]_vars

\* C17: verify rejects with a malformed-token error, and returns no payload
\* for, every token that does not split on "." into exactly 3 non-empty
\* segments or whose header or payload segment does not decode to JSON.
C17_MalformedRejected ==
  LET parts == Split(jwt.token, Chr.dot)
      outOfShape ==
        \/ Len(parts) # 3
        \/ \E i \in 1..Len(parts) : parts[i] = <<>>
        \/ ~JsonParse(base64urlDecode(parts[1])).ok
        \/ ~JsonParse(base64urlDecode(parts[2])).ok
  IN (jwt.stage = "verified" /\ outOfShape) =>
       /\ ~jwt.verified.ok
       /\ jwt.verified.err.name = "JsonWebTokenError"
       /\ jwt.verified.err.message \in {"JWT malformed", "Invalid JSON in token"}

\* ---------------------------------------------------- timespans alone

\* Strings parseTimespan is to refuse: "", "s", "5x", "5S", "-5", "-5s",
\* "+5", " 5s", "5 s", "5s ", "1.5", "5ms".
BadTimespans ==
  { <<>>, <<ASCII.s>>, <<53, 120>>, <<53, 83>>, <<45, 53>>, <<45, 53, ASCII.s>>,
    <<43, 53>>, <<ASCII.space, 53, ASCII.s>>, <<53, ASCII.space, ASCII.s>>,
    <<53, ASCII.s, ASCII.space>>, <<49, 46, 53>>, <<53, ASCII.m, ASCII.s>> }

\* What parseTimespan is given: numbers, some below zero; digit strings;
\* amounts with a unit; and the strings above.
TimespanValues ==
  {NumSpan(n) : n \in (-2..MaxAmount) \cup {1800}}
  \cup {StrSpan(Decimal(n)) : n \in (0..MaxAmount) \cup {1800}}
  \cup {StrSpan(Append(Decimal(n), u)) : n \in 0..MaxAmount, u \in Units}
  \cup {StrSpan(str) : str \in BadTimespans}

\* A parse not yet made.
TimespanInput(value) ==
  [ stage |-> "input", access |-> value,
    derived |-> [ok |-> FALSE, v |-> 0, s |-> <<>>, err |-> NoError] ]

InitTimespan ==
  /\ ServiceInit
  /\ env = RefreshSecret
  /\ jwt = NoJwt
  /\ span \in {TimespanInput(value) : value \in TimespanValues}

\* parseTimespan(value)
Parse ==
  /\ span.stage = "input"
  /\ \E r \in {parseTimespan(span.access)} :
       span' = [ stage |-> "parsed", access |-> span.access,
                 derived |-> [ok |-> r.ok, v |-> r.v, s |-> <<>>, err |-> r.err] ]
  /\ UNCHANGED <<store, clock, ticks, env, issued, last, jwt, web, page, zone>>

\* The formatter on the seconds parsed.
Render ==
  /\ span.stage = "parsed"
  /\ span.derived.ok
  /\ span.derived.v >= 0
  /\ span' = [span EXCEPT !.stage = "rendered",
                          !.derived.s = renderLifetime(span.derived.v)]
  /\ UNCHANGED <<store, clock, ticks, env, issued, last, jwt, web, page, zone>>

NextTimespan == Parse \/ Render

SpecTimespan == InitTimespan /\ [][NextTimespan]_vars

\* C19: parseTimespan returns n for a number n >= 0, the decimal value of a
\* digit-only string, and amount x 1, 60, 3600 or 86400 for digits followed
\* by s, m, h or d; every other input fails with the invalid-timespan error.
C19_ParseTimespanShapes ==
  span.stage = "parsed" =>
    LET value == span.access
        str == value.s
        amount == SubSeq(str, 1, Len(str) - 1)
        withUnit == /\ Len(str) >= 2
                    /\ AllDigits(amount)
                    /\ str[Len(str)] \in Units
    IN IF value.isNum /\ value.n >= 0
       THEN span.derived.ok /\ span.derived.v = value.n
       ELSE IF ~value.isNum /\ AllDigits(str)
       THEN span.derived.ok /\ span.derived.v = ParseInt(str)
       ELSE IF ~value.isNum /\ withUnit
       THEN /\ span.derived.ok
            /\ span.derived.v = ParseInt(amount) * UnitSeconds(str[Len(str)])
       ELSE /\ ~span.derived.ok
            /\ span.derived.err = TypeError("Invalid timespan format")

\* The representative inputs "5m", "2h", "3d" and "1800".
Representatives ==
  { StrSpan(<<53, ASCII.m>>), StrSpan(<<50, ASCII.h>>), StrSpan(<<51, ASCII.d>>),
    StrSpan(<<49, 56, 48, 48>>) }

\* C20: every string the formatter produces is accepted by parseTimespan,
\* and for "5m", "2h", "3d" and "1800" it parses to the seconds rendered.
C20_RenderedLifetimeParses ==
  span.stage = "rendered" =>
    /\ parseTimespan(StrSpan(span.derived.s)).ok
    /\ span.access \in Representatives =>
         parseTimespan(StrSpan(span.derived.s)).v = span.derived.v

\* C20 witness: "1800" has been parsed and rendered, as "30m".
C20_Witness ==
  /\ span.stage = "rendered"
  /\ span.access = StrSpan(<<49, 56, 48, 48>>)
  /\ span.derived.v = 1800
  /\ span.derived.s = <<51, 48, ASCII.m>>

\* -------------------------------------------------------- password hashing

SCRYPT_KEYLEN == 64

\* crypto.randomBytes(16): the number of salt bytes.
SaltBytes == 16

HexDigit(n) == IF n < 10 THEN ASCII.zero + n ELSE ASCII.a + (n - 10)

\* Buffer.toString("hex"): two lower-case hex digits per byte.
ToHex(bs) ==
  [ k \in 1..(2 * Len(bs)) |->
      IF k % 2 = 1 THEN HexDigit(bs[(k + 1) \div 2] \div 16)
      ELSE HexDigit(bs[(k + 1) \div 2] % 16) ]

IsHex(c) == IsDigit(c) \/ (c >= 97 /\ c <= 102) \/ (c >= 65 /\ c <= 70)

HexValue(c) ==
  IF IsDigit(c) THEN c - ASCII.zero
  ELSE IF c >= 97 THEN c - 97 + 10 ELSE c - 65 + 10

\* Buffer.from(str, "hex"): the bytes of the leading pairs of hex digits;
\* decoding stops at the first pair that is not hex.
FromHex(str) ==
  LET Good(k) == IsHex(str[2 * k - 1]) /\ IsHex(str[2 * k])
      n == Cardinality({k \in 1..(Len(str) \div 2) : \A j \in 1..k : Good(j)})
  IN [ k \in 1..n |-> 16 * HexValue(str[2 * k - 1]) + HexValue(str[2 * k]) ]

\* crypto.scrypt(password, salt, keylen): keylen bytes.  The derivation is
\* taken as collision-free: the key spells out the password and the salt
\* (length of the password, its bytes, the bytes of the salt, zero filled).
scrypt(password, salt, keylen) ==
  LET spelled == <<Len(password)>> \o password \o salt
  IN [ k \in 1..keylen |-> IF k <= Len(spelled) THEN spelled[k] ELSE 0 ]

\* hashPassword(password) when crypto.randomBytes returns randomBytes.
hashPassword(password, randomBytes) ==
  LET salt == ToHex(randomBytes)
  IN salt \o <<ASCII.colon>> \o ToHex(scrypt(password, salt, SCRYPT_KEYLEN))

\* A verifyPassword that compares the length of the stored hash only.
verifyHashLength(password, stored) ==
  LET parts == Split(stored, ASCII.colon)
  IN /\ Len(parts) >= 2
     /\ Len(FromHex(parts[2])) = SCRYPT_KEYLEN

\* verifyPassword(password, stored): split on ":", reject a missing salt or
\* hash, derive the key from the stored salt, compare length then bytes.
verifyPassword(password, stored) ==
  LET parts == Split(stored, ASCII.colon)
      Same(derivedKey, hashBuf) ==
        IF Len(hashBuf) # Len(derivedKey) THEN FALSE ELSE hashBuf = derivedKey
  IN IF Len(parts) < 2 THEN FALSE
     ELSE IF Len(parts[1]) = 0 \/ Len(parts[2]) = 0 THEN FALSE
     ELSE Same(scrypt(password, parts[1], SCRYPT_KEYLEN), FromHex(parts[2]))

\* Passwords: "a", "b", "ab", "ba", "a:", ":".
Passwords == {<<97>>, <<98>>, <<97, 98>>, <<98, 97>>, <<97, 58>>, <<58>>}

\* Outcomes of crypto.randomBytes(16).
SaltBuffers == {[k \in 1..SaltBytes |-> (b + k) % 256] : b \in {0, 58, 171, 255}}

InitPassword ==
  /\ store = {} /\ clock = 0 /\ ticks = 0 /\ issued = {}
  /\ last = Call("init", 0, 0, <<>>, Outcome("void", 0, Null, NoError, 0))
  /\ env = Undefined /\ jwt = NoJwt /\ span = NoLifetime /\ page = NoPage
  /\ zone = "UTC"
  /\ web \in {[stage |-> "input", password |-> p, stored |-> <<>>,
               candidate |-> <<>>, verified |-> FALSE] : p \in Passwords}

HashPassword(randomBytes) ==
  /\ web.stage = "input"
  /\ web' = [web EXCEPT !.stage = "hashed",
                        !.stored = hashPassword(web.password, randomBytes)]
  /\ UNCHANGED <<store, clock, ticks, env, issued, last, jwt, span, page, zone>>

VerifyPassword(candidate) ==
  /\ web.stage = "hashed"
  /\ web' = [web EXCEPT !.stage = "verified", !.candidate = candidate,
                        !.verified = verifyPassword(candidate, web.stored)]
  /\ UNCHANGED <<store, clock, ticks, env, issued, last, jwt, span, page, zone>>

NextPassword ==
  \/ \E randomBytes \in SaltBuffers : HashPassword(randomBytes)
  \/ \E candidate \in Passwords : VerifyPassword(candidate)

SpecPassword == InitPassword /\ [][NextPassword]_vars

\* C21: verifyPassword of a password against the string hashPassword made
\* of a password answers true exactly when the two passwords are the same,
\* whatever salt hashPassword drew.
C21_PasswordRoundTrip ==
  web.stage = "verified" => (web.verified <=> web.candidate = web.password)

\* Both cases happen: the right password is accepted against a stored
\* string of 32 + 1 + 128 characters (C21_Witness), a wrong one is refused.
C21_Witness ==
  /\ web.stage = "verified"
  /\ web.candidate = web.password
  /\ web.verified
  /\ Len(web.stored) = 2 * SaltBytes + 1 + 2 * SCRYPT_KEYLEN
\* --------------------------------------------------- the caller's payload

\* C22: a call of sign, returning or throwing, leaves the payload object
\* the caller passed with exactly the members it had before the call.
C22_PayloadUntouched ==
  [][(jwt.stage = "input" /\ jwt'.stage = "signed") => jwt'.payload = jwt.payload]_vars

\* C22 witness: sign has returned a token whose payload carries iss, sub,
\* aud, jti, exp and nbf, none of which the caller's object has.
C22_Witness ==
  /\ jwt.stage = "signed"
  /\ jwt.signed.ok
  /\ ~Has(jwt.payload, Key.iss) /\ ~Has(jwt.payload, Key.exp)
  /\ \A k \in {Key.iss, Key.sub, Key.aud, Key.jti, Key.exp, Key.nbf} :
       Has(parseJwtToken(jwt.token).payload, k)
\* ------------------------------------------------------------------ decode

\* What decode returns: null, the payload, or with complete the header, the
\* payload and the signature segment, a string or null.
NullSegment == [isNull |-> TRUE, text |-> <<>>]
Segment(text) == [isNull |-> FALSE, text |-> text]
DecodedNull == [kind |-> "null"]
DecodedPayload(payload) == [kind |-> "payload", payload |-> payload]
DecodedComplete(header, payload, signature) ==
  [kind |-> "complete", header |-> header, payload |-> payload,
   signature |-> signature]

\* A decode that parses the token the way verify does (parseJwtToken):
\* three segments or nothing.
decodeThreeSegments(token, complete) ==
  LET Of(parsed) ==
        IF ~parsed.ok THEN DecodedNull
        ELSE IF complete
        THEN DecodedComplete(parsed.header, parsed.payload, Segment(parsed.signature))
        ELSE DecodedPayload(parsed.payload)
  IN Of(parseJwtToken(token))

\* decode(token, { complete }): no signature and no claim is checked; every
\* error of the parse is caught and answered with null.
decode(token, complete) ==
  LET Of(parts, header, payload) ==
        IF ~header.ok \/ ~payload.ok THEN DecodedNull
        ELSE IF complete
        THEN DecodedComplete(header.obj, payload.obj,
                             IF Len(parts) >= 3 /\ Len(parts[3]) > 0
                             THEN Segment(parts[3]) ELSE NullSegment)
        ELSE DecodedPayload(payload.obj)
      Parts(parts) ==
        IF Len(parts) < 2 THEN DecodedNull
        ELSE Of(parts, JsonParse(base64urlDecode(parts[1])),
                JsonParse(base64urlDecode(parts[2])))
  IN Parts(Split(token, Chr.dot))

\* The shapes a token is decoded in: the ones above, and a signature
\* segment that is another one or is cut short.
DecodeShapes == Shapes \cup {"otherSignature", "cutSignature"}

\* decode(token, { complete }) of the token in hand
JwtDecode(complete) ==
  /\ jwt.stage \in {"signed", "altered"}
  /\ jwt.signed.ok
  /\ jwt' = [jwt EXCEPT !.stage = "decoded", !.complete = complete,
                        !.decoded = decode(jwt.token, complete)]
  /\ UNCHANGED <<store, clock, ticks, env, issued, last, span, web, page, zone>>

NextDecode ==
  \/ JwtSign
  \/ \E shape \in DecodeShapes : JwtReshape(shape)
  \/ \E complete \in BOOLEAN : JwtDecode(complete)

SpecDecode == InitShapes /\ [][NextDecode]_vars

\* C23: decode answers null or the decoded content and nothing else; null
\* when the token has fewer than 2 segments or its header or payload does
\* not parse; and for a token whose header and payload segments are those
\* of the signed token, whatever follows them (another signature, a cut
\* one, none, one more segment), the payload of the signed token, with
\* complete the third segment as it stands, or null when it is absent or
\* empty.
C23_DecodeNeverVerifies ==
  LET parts == Split(jwt.token, Chr.dot)
      signed == Split(jwt.signed.token, Chr.dot)
      unreadable ==
        \/ Len(parts) < 2
        \/ ~JsonParse(base64urlDecode(parts[1])).ok
        \/ ~JsonParse(base64urlDecode(parts[2])).ok
      sameContent ==
        Len(parts) >= 2 /\ parts[1] = signed[1] /\ parts[2] = signed[2]
  IN jwt.stage = "decoded" =>
       /\ jwt.decoded.kind \in {"null", "payload", "complete"}
       /\ unreadable => jwt.decoded.kind = "null"
       /\ sameContent =>
            /\ jwt.decoded.kind = IF jwt.complete THEN "complete" ELSE "payload"
            /\ jwt.decoded.payload = parseJwtToken(jwt.signed.token).payload
            /\ jwt.complete =>
                 jwt.decoded.signature =
                   IF Len(parts) = 2 \/ parts[3] = <<>> THEN NullSegment
                   ELSE Segment(parts[3])

\* C23 witness: a token with another signature than the one sign made is
\* decoded, with complete, to the signed payload and that signature.
C23_Witness ==
  /\ jwt.stage = "decoded"
  /\ jwt.complete
  /\ jwt.altered
  /\ Len(Split(jwt.token, Chr.dot)) = 3
  /\ jwt.token # jwt.signed.token
  /\ jwt.decoded.kind = "complete"
  /\ jwt.decoded.payload = parseJwtToken(jwt.signed.token).payload
  /\ ~jwt.decoded.signature.isNull
  /\ jwt.decoded.signature.text # Split(jwt.signed.token, Chr.dot)[3]
\* -------------------------------------------------- the header algorithm

\* C24: the header of every token sign returns names the algorithm its
\* signature was computed with, one of HS256, HS384, HS512, whatever extra
\* header members and key id the caller gave.
C24_HeaderNamesAlgorithm ==
  LET algorithm == IF jwt.options.algorithm # Undefined
                   THEN jwt.options.algorithm ELSE Lit.HS256
      parts == Split(jwt.token, Chr.dot)
  IN (jwt.stage = "signed" /\ jwt.signed.ok) =>
       /\ parts[3] = createSignature(algorithm, jwt.secret,
                                     parts[1] \o <<Chr.dot>> \o parts[2]).sig
       /\ HeaderAlg = algorithm
       /\ HeaderAlg \in SUPPORTED_ALGS
\* ------------------------------------------ bounds of the refresh lifetime

\* C27: for an access lifetime of x seconds the timespan parser accepts,
\* the lifetime R the derived string denotes has
\* max(1800, x) <= R <= max(1800, 30 x).
C27_LifetimeBounds ==
  LET Max(a, b) == IF a > b THEN a ELSE b
      Bounded(x, R) ==
        /\ R.ok
        /\ Max(1800, x) <= R.v
        /\ R.v <= Max(1800, 30 * x)
  IN (span.stage = "derived" /\ parseTimespan(StrSpan(span.access)).ok) =>
       /\ span.derived.ok
       /\ Bounded(parseTimespan(StrSpan(span.access)).v,
                  parseTimespan(StrSpan(span.derived.s)))

\* C27 witness: "25h" (90000 s) gives "31d" (2678400 s), below 30 x 90000.
C27_Witness ==
  /\ span.stage = "derived"
  /\ span.access = <<50, 53, ASCII.h>>
  /\ span.derived.ok
  /\ span.derived.s = <<51, 49, ASCII.d>>
  /\ parseTimespan(StrSpan(span.derived.s)).v < 30 * 90000
\* ----------------------------------------------------- rotation, again

\* C25: after rotate has run, to its end or up to an exception between the
\* delete and the insert, validate does not accept both the old token and
\* the new one; and when it ended between the two steps validate accepts
\* neither.
C25_RotationFailsSafe ==
  LET Accepted(h) == h # 0 /\ ValidateNow(h).kind = "identity"
      NewOf(generated) == IF generated.ok THEN Handle(generated.token) ELSE 0
      new == IF last.out.kind = "token" THEN last.out.token
             ELSE NewOf(generateRefreshToken(last.user, UserName(last.user),
                                             last.life, env, clock))
  IN (last.op = "rotate" /\ last.out.kind \in {"token", "throw"}) =>
       /\ ~(Accepted(last.token) /\ Accepted(new))
       /\ last.out.kind = "throw" => (~Accepted(last.token) /\ ~Accepted(new))
\* ------------------------------------------------- one row for one hash

\* C26: no two rows of the table hold the same token_hash, whatever was
\* called; and a persist of a token whose hash the table already holds
\* raises and leaves the table as it was.
C26_HashUnique ==
  /\ [](\A r1, r2 \in store : r1.token_hash = r2.token_hash => r1 = r2)
  /\ [][(last'.op = "persist" /\ RowsOf(last'.token) # {}) =>
          (last'.out.kind = "throw" /\ store' = store)]_vars

\* C26 witness: a persist of a stored token, under another user id, has
\* raised the UNIQUE failure.
C26_Witness ==
  /\ last.op = "persist"
  /\ last.out.kind = "throw"
  /\ last.out.err.name = "SqliteError"
  /\ \E r \in store : r.token_hash = hashRefreshToken(Minted[last.token])
                      /\ r.user_id # last.user
\* ------------------------------------------- the row and its token's exp

\* The service in either time zone, its secret set.
Zones == {"UTC", "DST"}

InitZone ==
  /\ store = {} /\ clock = 0 /\ ticks = 0 /\ issued = {}
  /\ last = Call("init", 0, 0, <<>>, Outcome("void", 0, Null, NoError, 0))
  /\ env = RefreshSecret /\ jwt = NoJwt /\ span = NoLifetime
  /\ web = NoWeb /\ page = NoPage
  /\ zone \in Zones

NextZone ==
  \/ \E d \in TickSteps : Tick(d)
  \/ \E u \in Users, life \in Lifetimes : Generate(u, life)
  \/ \E u \in Users, h \in issued, days \in DaysArgs : Persist(u, h, days)
  \/ \E h \in issued : Validate(h)
  \/ \E h \in issued, u \in Users, life \in Lifetimes : Rotate(h, u, life)

SpecZone == InitZone /\ [][NextZone]_vars

\* The exp claim of each minted token, decoded once (0: none).
ExpClaim ==
  [h \in 1..Len(Minted) |->
     LET exp == Get(parseJwtToken(Minted[h]).payload, Key.exp)
     IN IF IsNumber(exp) THEN NumOf(exp) ELSE 0]

\* C28: the row rotate inserts for the token it returns expires no earlier
\* than the token's exp claim, so that the lookup finds the row up to the
\* last second before exp.
C28_RowOutlivesToken ==
  (last.op = "rotate" /\ last.out.kind = "token") =>
    /\ \A r \in RowsOf(last.out.token) :
         fromISOString(r.expires_at) >= ExpClaim[last.out.token]
    /\ SelectLive(store, hashRefreshToken(Minted[last.out.token]),
                  ExpClaim[last.out.token] - 1) # {}
\* ------------------------------------------------------------------ signup

\* The signup requests in flight at once.
MaxRequests == 3

Requests == 1..MaxRequests

\* Request bodies: usernames "a" and "b", one password, a secret message
\* or none ("").
SignupBodies ==
  {[username |-> u, password |-> <<112>>, secretMessage |-> m] :
     u \in {<<97>>, <<98>>}, m \in {<<115>>, <<>>}}

\* What crypto.randomBytes returns to the requests.
SignupSalts == {[k \in 1..SaltBytes |-> (b + k) % 256] : b \in {0, 171}}

NoResponse == [status |-> 0, error |-> "", message |-> ""]

\* SELECT username FROM users WHERE username = ?
SelectUser(users, username) == {r \in users : r.username = username}

\* INSERT INTO users: [ok, users]; username is UNIQUE, so the insert of a
\* taken name raises.
InsertUser(users, username, passwordHash, secretMessage, createdAt) ==
  IF SelectUser(users, username) # {} THEN [ok |-> FALSE, users |-> users]
  ELSE [ok |-> TRUE,
        users |-> users \cup {[ username |-> username, password_hash |-> passwordHash,
                                secret_message |-> secretMessage,
                                created_at |-> createdAt ]}]

InitSignup ==
  /\ store = {} /\ clock = 0 /\ ticks = 0 /\ issued = {}
  /\ last = Call("init", 0, 0, <<>>, Outcome("void", 0, Null, NoError, 0))
  /\ env = Undefined /\ jwt = NoJwt /\ span = NoLifetime /\ page = NoPage
  /\ zone = "UTC"
  /\ web \in {[stage |-> "signup", users |-> {},
               req |-> [i \in Requests |->
                          [pc |-> "arrived", body |-> bodies[i], res |-> NoResponse]]] :
              bodies \in [Requests -> SignupBodies]}

\* signup, from its entry to the await of hashPassword: the body is
\* validated, the name looked up, the hashing started.
SignupCheck(i) ==
  /\ web.stage = "signup"
  /\ web.req[i].pc = "arrived"
  /\ \E body \in {web.req[i].body} :
       web' = IF Len(body.username) = 0 \/ Len(body.password) = 0
                 \/ Len(body.secretMessage) = 0
              THEN [web EXCEPT !.req[i].pc = "done",
                      !.req[i].res =
                        [status |-> 400, message |-> "",
                         error |-> "username, password and secretMessage are required"]]
              ELSE IF SelectUser(web.users, body.username) # {}
              THEN [web EXCEPT !.req[i].pc = "done",
                      !.req[i].res = [status |-> 409, message |-> "",
                                      error |-> "Username already taken"]]
              ELSE [web EXCEPT !.req[i].pc = "hashing"]
  /\ UNCHANGED <<store, clock, ticks, env, issued, last, jwt, span, page, zone>>

\* signup, from the resolution of hashPassword to its end: the insert, and
\* 201, or 500 from the catch when the insert raises.
SignupInsert(i, randomBytes) ==
  /\ web.stage = "signup"
  /\ web.req[i].pc = "hashing"
  /\ \E body \in {web.req[i].body} :
       \E r \in {InsertUser(web.users, body.username,
                            hashPassword(body.password, randomBytes),
                            body.secretMessage, toISOString(clock))} :
         web' = IF r.ok
                THEN [web EXCEPT !.users = r.users, !.req[i].pc = "done",
                        !.req[i].res = [status |-> 201, error |-> "",
                                        message |-> "User created successfully"]]
                ELSE [web EXCEPT !.req[i].pc = "done",
                        !.req[i].res = [status |-> 500, message |-> "",
                                        error |-> "Internal server error"]]
  /\ UNCHANGED <<store, clock, ticks, env, issued, last, jwt, span, page, zone>>

NextSignup ==
  \/ \E i \in Requests : SignupCheck(i)
  \/ \E i \in Requests, randomBytes \in SignupSalts : SignupInsert(i, randomBytes)

SpecSignup == InitSignup /\ [][NextSignup]_vars

\* C29: of the requests with a complete body and one username, once all
\* are answered, exactly one got 201 and every other one 409 "Username
\* already taken"; and no two rows of users hold the same username.
C29_ConcurrentSignup ==
  LET Complete(i) == Len(web.req[i].body.secretMessage) > 0
      Same(i, j) == web.req[i].body.username = web.req[j].body.username
      Created == {i \in Requests : web.req[i].res.status = 201}
  IN web.stage = "signup" =>
       /\ \A r1, r2 \in web.users : r1.username = r2.username => r1 = r2
       /\ (\A i \in Requests : web.req[i].pc = "done") =>
            \A i \in Requests : Complete(i) =>
              /\ Cardinality({j \in Created : Same(i, j)}) = 1
              /\ i \notin Created =>
                   /\ web.req[i].res.status = 409
                   /\ web.req[i].res.error = "Username already taken"
\* ------------------------------------------------------ the dashboard page

\* The most calls of the refresh endpoint followed within one load.
MaxRefresh == 3

\* The page at rest.  isLoading, isRetrying and showLoginPrompt are the
\* React state; cookie: a refreshToken cookie exists; pc: where the load in
\* progress stands ("idle": none; "fetching": the secret is requested;
\* "timer": the 2 s timer before the refresh runs; "refreshing": the refresh
\* endpoint is requested); seen: the isRetrying that the loadSecretMessage
\* in progress closed over; promptTimer: a timer that will show the login
\* prompt runs; refreshCalls: calls of the refresh endpoint since the user
\* started the load; denied: this load met a 401 with no cookie.
PageAtRest(cookie) ==
  [ stage |-> "page", isLoading |-> FALSE, isRetrying |-> FALSE,
    showLoginPrompt |-> FALSE, cookie |-> cookie, pc |-> "idle", seen |-> FALSE,
    promptTimer |-> FALSE, refreshCalls |-> 0, denied |-> FALSE, status |-> 0 ]

InitPage ==
  /\ store = {} /\ clock = 0 /\ ticks = 0 /\ issued = {}
  /\ last = Call("init", 0, 0, <<>>, Outcome("void", 0, Null, NoError, 0))
  /\ env = Undefined /\ jwt = NoJwt /\ span = NoLifetime /\ web = NoWeb
  /\ zone = "UTC"
  /\ page \in {PageAtRest(cookie) : cookie \in BOOLEAN}

\* The user starts a load: the effect on mount, or the Reload button, which
\* is disabled while isLoading or isRetrying.  loadSecretMessage sets
\* isLoading and sends the request; it is the function of the render on
\* screen, so the isRetrying it reads from now on is the one of that render.
PageLoad ==
  /\ page.stage = "page"
  /\ page.pc = "idle"
  /\ ~page.isLoading /\ ~page.isRetrying
  /\ page' = [page EXCEPT !.isLoading = TRUE, !.seen = page.isRetrying,
                          !.pc = "fetching", !.refreshCalls = 0, !.denied = FALSE,
                          !.status = 0]
  /\ UNCHANGED <<store, clock, ticks, env, issued, last, jwt, span, web, zone>>

\* The server answers the request for the secret with status (0: fetch
\* rejects); mentions: the error text holds "refresh" or "login".
SecretAnswer(status, mentions) ==
  /\ page.stage = "page"
  /\ page.pc = "fetching"
  /\ page' =
       IF status = 401
       THEN IF page.cookie /\ ~page.seen
            THEN [page EXCEPT !.isRetrying = TRUE, !.pc = "timer",
                              !.isLoading = FALSE, !.status = status]
            ELSE [page EXCEPT !.promptTimer = TRUE, !.pc = "idle",
                              !.isLoading = FALSE, !.denied = TRUE, !.status = status]
       ELSE IF status # 200
       THEN [page EXCEPT !.promptTimer = page.promptTimer \/ mentions, !.pc = "idle",
                         !.isLoading = FALSE, !.status = status]
       ELSE [page EXCEPT !.pc = "idle", !.isLoading = FALSE, !.status = status]
  /\ UNCHANGED <<store, clock, ticks, env, issued, last, jwt, span, web, zone>>

\* The 2 s timer fires and handleTokenRefresh starts: without a cookie it
\* returns null at once, with one it calls the refresh endpoint.
RefreshStart ==
  /\ page.stage = "page"
  /\ page.pc = "timer"
  /\ page.cookie => page.refreshCalls < MaxRefresh
  /\ page' = IF ~page.cookie
             THEN [page EXCEPT !.isRetrying = FALSE, !.pc = "idle"]
             ELSE [page EXCEPT !.refreshCalls = page.refreshCalls + 1,
                               !.pc = "refreshing"]
  /\ UNCHANGED <<store, clock, ticks, env, issued, last, jwt, span, web, zone>>

\* The refresh endpoint answers: "token" (ok, with an access token),
\* "empty" (ok, without one) or "failed" (not ok, or fetch rejects).  With a
\* token the cookie is set, isRetrying is reset and the same
\* loadSecretMessage is called with the new token.
RefreshAnswer(answer) ==
  /\ page.stage = "page"
  /\ page.pc = "refreshing"
  /\ page' = IF answer = "token"
             THEN [page EXCEPT !.cookie = TRUE, !.isRetrying = FALSE,
                               !.isLoading = TRUE, !.pc = "fetching"]
             ELSE [page EXCEPT !.isRetrying = FALSE, !.pc = "idle"]
  /\ UNCHANGED <<store, clock, ticks, env, issued, last, jwt, span, web, zone>>

\* A timer set to show the login prompt fires.
PromptTimer ==
  /\ page.stage = "page"
  /\ page.promptTimer
  /\ page' = [page EXCEPT !.promptTimer = FALSE, !.showLoginPrompt = TRUE]
  /\ UNCHANGED <<store, clock, ticks, env, issued, last, jwt, span, web, zone>>

\* The browser drops the refreshToken cookie (it expired).
CookieExpires ==
  /\ page.stage = "page"
  /\ page.cookie
  /\ page' = [page EXCEPT !.cookie = FALSE]
  /\ UNCHANGED <<store, clock, ticks, env, issued, last, jwt, span, web, zone>>

NextPage ==
  \/ PageLoad
  \/ \E status \in {0, 200, 401, 500}, mentions \in BOOLEAN : SecretAnswer(status, mentions)
  \/ RefreshStart
  \/ \E answer \in {"token", "empty", "failed"} : RefreshAnswer(answer)
  \/ PromptTimer
  \/ CookieExpires

SpecPage == InitPage /\ [][NextPage]_vars

\* C30: one load the user starts calls the refresh endpoint once at most,
\* whatever the server answers; a 401 met without a cookie calls it not at
\* all and leads to the login prompt; and when the load has settled
\* isLoading and isRetrying are both false.
C30_BoundedRefresh ==
  page.stage = "page" =>
    /\ page.refreshCalls <= 1
    /\ page.pc = "idle" => (~page.isLoading /\ ~page.isRetrying)
    /\ page.denied => (page.promptTimer \/ page.showLoginPrompt)
====
